---- MODULE Spec2Model ----
(***************************************************************************)
(* Model of the story pipeline: the PipelineMessage and its timestamp      *)
(* records, the TimestampTracker, the two transport codecs (dictionary     *)
(* form and binary-schema form), the top-level cross-transport merge, the  *)
(* sequential Pipeline runner and the parallel hub (service C).            *)
(*                                                                         *)
(* Python values are modelled as follows.                                  *)
(*   - an optional string or an optional structured map is a string token: *)
(*     NoneV for None, "" for the empty string, "{}" for the empty map,    *)
(*     any other token for a non-empty value;                              *)
(*   - an optional instant is an integer, NoneT for None;                  *)
(*   - a dict whose keys may be missing maps each key to an option:        *)
(*     << >> when the key is missing, <<v>> when it is present with v;     *)
(*   - a JSON blob of the binary schema is an option as well: << >> is the *)
(*     empty string, <<v>> is the JSON text of v.                          *)
(***************************************************************************)
EXTENDS Integers, Sequences, FiniteSets, TLC

\* ------------------------------------------------------------------------
\* Values
\* ------------------------------------------------------------------------

NoneV == "<None>"

NoneT == -1

EmptyMap == << >>

\* Python truthiness of an optional string / optional structured map.
TruthyV(v) == v \notin {NoneV, "", "{}"}

\* Python truthiness of an optional float.
TruthyT(t) == t # NoneT /\ t # 0

\* Python truthiness of a dict modelled as a function.
TruthyMap(f) == DOMAIN f # {}

Get(o) == IF o = << >> THEN NoneV ELSE o[1]

GetT(o) == IF o = << >> THEN NoneT ELSE o[1]

OutputFields == {"image_concept", "audio_script", "translations", "formatted_output"}

OptionalFields == {"story_text", "analysis"} \cup OutputFields

\* ------------------------------------------------------------------------
\* core/message.py
\* ------------------------------------------------------------------------

TimestampRecordUnnamed(name) ==
    [service_name |-> "", received_time |-> NoneT,
     start_time |-> NoneT, end_time |-> NoneT]

TimestampRecord(name) ==
    [service_name |-> name, received_time |-> NoneT,
     start_time |-> NoneT, end_time |-> NoneT]

PipelineMessage(prompt) ==
    [user_input |-> prompt, story_text |-> NoneV, analysis |-> NoneV,
     image_concept |-> NoneV, audio_script |-> NoneV, translations |-> NoneV,
     formatted_output |-> NoneV, timestamps |-> EmptyMap, metadata |-> EmptyMap]

add_timestamp(m, name) ==
    IF name \in DOMAIN m.timestamps
    THEN m
    ELSE [m EXCEPT !.timestamps = (name :> TimestampRecord(name)) @@ @]

\* datetime.fromtimestamp(t).isoformat(): a derived string, never read back.
IsoFormat(t) == <<"iso", t>>

TsToDict(r) ==
    [service_name |-> r.service_name,
     received |-> IF TruthyT(r.received_time) THEN <<IsoFormat(r.received_time)>> ELSE << >>,
     received_timestamp |-> IF TruthyT(r.received_time) THEN <<r.received_time>> ELSE << >>,
     started |-> IF TruthyT(r.start_time) THEN <<IsoFormat(r.start_time)>> ELSE << >>,
     started_timestamp |-> IF TruthyT(r.start_time) THEN <<r.start_time>> ELSE << >>,
     completed |-> IF TruthyT(r.end_time) THEN <<IsoFormat(r.end_time)>> ELSE << >>,
     completed_timestamp |-> IF TruthyT(r.end_time) THEN <<r.end_time>> ELSE << >>,
     duration_ms |-> IF TruthyT(r.start_time) /\ TruthyT(r.end_time)
                     THEN <<(r.end_time - r.start_time) * 1000>> ELSE << >>]

OptV(v) == IF TruthyV(v) THEN <<v>> ELSE << >>

ToDict(m) ==
    [user_input |-> <<m.user_input>>,
     timestamps |-> <<[n \in DOMAIN m.timestamps |-> TsToDict(m.timestamps[n])]>>,
     story_text |-> << >>,
     story |-> IF TruthyV(m.story_text) THEN <<[text |-> m.story_text]>> ELSE << >>,
     analysis |-> OptV(m.analysis),
     image_concept |-> OptV(m.image_concept),
     audio_script |-> OptV(m.audio_script),
     translations |-> OptV(m.translations),
     formatted_output |-> OptV(m.formatted_output),
     metadata |-> IF TruthyMap(m.metadata) THEN <<m.metadata>> ELSE << >>]

\* data.get("story_text") or data.get("story") and data.get("story").get("text")
FromDictStory(d) ==
    IF TruthyV(Get(d.story_text)) THEN Get(d.story_text)
    ELSE IF d.story = << >> THEN NoneV
    ELSE d.story[1].text

FromDictRecordFromIso(name, tdict) ==
    [service_name |-> name,
     received_time |-> IF tdict.received # << >> THEN tdict.received[1][2]
                       ELSE GetT(tdict.received_timestamp),
     start_time |-> IF tdict.started # << >> THEN tdict.started[1][2]
                    ELSE GetT(tdict.started_timestamp),
     end_time |-> IF tdict.completed # << >> THEN tdict.completed[1][2]
                  ELSE GetT(tdict.completed_timestamp)]

FromDictRecord(name, tdict) ==
    [service_name |-> name,
     received_time |-> GetT(tdict.received_timestamp),
     start_time |-> GetT(tdict.started_timestamp),
     end_time |-> GetT(tdict.completed_timestamp)]

FromDictTimestamps(d) ==
    IF d.timestamps = << >> THEN EmptyMap
    ELSE [n \in DOMAIN d.timestamps[1] |-> FromDictRecord(n, d.timestamps[1][n])]

FromDictNoPrompt(d) ==
    [user_input |-> "",
     story_text |-> FromDictStory(d),
     analysis |-> Get(d.analysis),
     image_concept |-> Get(d.image_concept),
     audio_script |-> Get(d.audio_script),
     translations |-> Get(d.translations),
     formatted_output |-> Get(d.formatted_output),
     metadata |-> IF d.metadata = << >> THEN EmptyMap ELSE d.metadata[1],
     timestamps |-> FromDictTimestamps(d)]

FromDict(d) ==
    [user_input |-> IF d.user_input = << >> THEN "" ELSE d.user_input[1],
     story_text |-> FromDictStory(d),
     analysis |-> Get(d.analysis),
     image_concept |-> Get(d.image_concept),
     audio_script |-> Get(d.audio_script),
     translations |-> Get(d.translations),
     formatted_output |-> Get(d.formatted_output),
     metadata |-> IF d.metadata = << >> THEN EmptyMap ELSE d.metadata[1],
     timestamps |-> FromDictTimestamps(d)]

\* ------------------------------------------------------------------------
\* core/timestamp_tracker.py
\* ------------------------------------------------------------------------

mark_received(m, name, now) ==
    [add_timestamp(m, name) EXCEPT !.timestamps[name].received_time = now]

mark_started_swapped(m, name, t1, t2) ==
    LET m1 == add_timestamp(m, name)
        rcv == m1.timestamps[name].received_time
    IN [m1 EXCEPT !.timestamps[name].received_time = IF TruthyT(rcv) THEN rcv ELSE t2,
                  !.timestamps[name].start_time = t1]

\* mark_started reads the clock once for a missing received_time and once
\* more for start_time.
mark_started_at(m, name, t1, t2) ==
    LET m1 == add_timestamp(m, name)
        rcv == m1.timestamps[name].received_time
    IN [m1 EXCEPT !.timestamps[name].received_time = IF TruthyT(rcv) THEN rcv ELSE t1,
                  !.timestamps[name].start_time = t2]

\* mark_started while the clock stands still.
mark_started(m, name, now) == mark_started_at(m, name, now, now)

mark_completed_backfill(m, name, now) ==
    LET m1 == add_timestamp(m, name)
        st == m1.timestamps[name].start_time
    IN [m1 EXCEPT !.timestamps[name].start_time = IF TruthyT(st) THEN st ELSE now,
                  !.timestamps[name].end_time = now]

mark_completed_once(m, name, now) ==
    LET m1 == add_timestamp(m, name)
        e == m1.timestamps[name].end_time
    IN [m1 EXCEPT !.timestamps[name].end_time = IF TruthyT(e) THEN e ELSE now]

mark_completed(m, name, now) ==
    [add_timestamp(m, name) EXCEPT !.timestamps[name].end_time = now]

\* ------------------------------------------------------------------------
\* core/grpc_utils.py
\* ------------------------------------------------------------------------

\* json.dumps of a structured value, "" for None.
safe_dumps(v) == IF v = NoneV THEN << >> ELSE <<v>>

\* json.loads of a blob, None for "".
safe_loads(b) == IF b = << >> THEN NoneV ELSE b[1]

StrOrEmpty(s) == IF s \in {NoneV, ""} THEN "" ELSE s

pipeline_message_to_proto(pm) ==
    [user_input |-> StrOrEmpty(pm.user_input),
     story_text |-> StrOrEmpty(pm.story_text),
     analysis_json |-> safe_dumps(pm.analysis),
     image_concept_json |-> safe_dumps(pm.image_concept),
     audio_script_json |-> safe_dumps(pm.audio_script),
     translations_json |-> safe_dumps(pm.translations),
     formatted_output_json |-> safe_dumps(pm.formatted_output),
     metadata_json |-> <<pm.metadata>>,
     timestamps_json |-> <<[n \in DOMAIN pm.timestamps |-> TsToDict(pm.timestamps[n])]>>]

\* "if x is not None: data[key] = x"
OptLoaded(b) == IF safe_loads(b) = NoneV THEN << >> ELSE <<safe_loads(b)>>

ProtoData(proto) ==
    [user_input |-> <<StrOrEmpty(proto.user_input)>>,
     story_text |-> << >>,
     story |-> <<[text |-> StrOrEmpty(proto.story_text)]>>,
     analysis |-> OptLoaded(proto.analysis_json),
     image_concept |-> OptLoaded(proto.image_concept_json),
     audio_script |-> OptLoaded(proto.audio_script_json),
     translations |-> OptLoaded(proto.translations_json),
     formatted_output |-> OptLoaded(proto.formatted_output_json),
     metadata |-> proto.metadata_json,
     timestamps |-> proto.timestamps_json]

proto_to_pipeline_message(proto) == FromDict(ProtoData(proto))

\* ------------------------------------------------------------------------
\* main.py: the top-level cross-transport merge
\* ------------------------------------------------------------------------

\* "if src.f is not None: dst.f = src.f"
MergeField(d, s) == IF s # NoneV THEN s ELSE d

MergeMetadataLocalWins(d, s) == IF TruthyMap(s) THEN d @@ s ELSE d

\* "if src.metadata: dst.metadata.update(src.metadata)"
MergeMetadata(d, s) == IF TruthyMap(s) THEN s @@ d ELSE d

MergeTimestampsSrcWins(d, s) == s @@ d

\* "for name, ts in src.timestamps.items(): if name not in dst.timestamps: ..."
MergeTimestamps(d, s) == d @@ s

merge_message(dst, src) ==
    [dst EXCEPT !.story_text = MergeField(@, src.story_text),
                !.analysis = MergeField(@, src.analysis),
                !.image_concept = MergeField(@, src.image_concept),
                !.audio_script = MergeField(@, src.audio_script),
                !.translations = MergeField(@, src.translations),
                !.formatted_output = MergeField(@, src.formatted_output),
                !.metadata = MergeMetadata(@, src.metadata),
                !.timestamps = MergeTimestamps(@, src.timestamps)]

\* ------------------------------------------------------------------------
\* services/service_c_parallel_hub.py: the collector's merge of one result
\* ------------------------------------------------------------------------

HubFieldUnguarded(d, s) == s

\* "if result_message.f: message.f = result_message.f"
HubField(d, s) == IF TruthyV(s) THEN s ELSE d

HubMergeFields(message, result) ==
    [message EXCEPT !.image_concept = HubField(@, result.image_concept),
                    !.audio_script = HubField(@, result.audio_script),
                    !.translations = HubField(@, result.translations),
                    !.formatted_output = HubField(@, result.formatted_output)]

HubTimestampsResultWins(d, s) == s @@ d

HubTimestampsToggle(d, s) ==
    [n \in (DOMAIN d \ DOMAIN s) \cup (DOMAIN s \ DOMAIN d) |->
        IF n \in DOMAIN d THEN d[n] ELSE s[n]]

\* "for ts_name, ts_record in result_message.timestamps.items():
\*      if ts_name not in message.timestamps: ..."
HubTimestamps(d, s) == d @@ s

HubMergeTimestamps(message, result) ==
    [message EXCEPT !.timestamps = HubTimestamps(@, result.timestamps)]

HubMerge(message, result) ==
    HubMergeTimestamps(HubMergeFields(message, result), result)

\* ------------------------------------------------------------------------
\* services/*.py: what each stage writes to the message it is given
\* ------------------------------------------------------------------------

StageA == "service_a_story_generator"

StageB == "service_b_story_analyzer"

StageC == "service_c_parallel_hub"

StageD == "service_d_aggregator"

SubC1 == "service_c1_image_concept"

SubC2 == "service_c2_audio_script"

SubC3 == "service_c3_translation"

SubC4 == "service_c4_formatting"

MainProgram == "main_program"

SubStages == {SubC1, SubC2, SubC3, SubC4}

\* The order of parallel_services, which is the order of submission.
SubOrder == <<SubC1, SubC2, SubC3, SubC4>>

OwnField(k) ==
    CASE k = SubC1 -> "image_concept"
      [] k = SubC2 -> "audio_script"
      [] k = SubC3 -> "translations"
      [] k = SubC4 -> "formatted_output"

process_service_a(m) ==
    [m EXCEPT !.story_text = "story",
              !.metadata = ("characters" :> "characters") @@ ("theme" :> "theme")
                           @@ ("generation_metadata" :> "generation") @@ @]

ServiceBNeverRaises(m) == FALSE

\* "if not message.story_text: raise ValueError(...)"
ServiceBRaises(m) == ~TruthyV(m.story_text)

process_service_b(m) == [m EXCEPT !.analysis = "analysis"]

process_service_c1(m) == [m EXCEPT !.image_concept = "image"]

process_service_c2(m) == [m EXCEPT !.audio_script = "audio"]

process_service_c3(m) ==
    [m EXCEPT !.translations = "translations",
              !.metadata = ("spanish_translation_metadata" :> "spanish")
                           @@ ("french_translation_metadata" :> "french") @@ @]

process_service_c4(m) == [m EXCEPT !.formatted_output = "formatted"]

SubStageCall(k, m) ==
    CASE k = SubC1 -> process_service_c1(m)
      [] k = SubC2 -> process_service_c2(m)
      [] k = SubC3 -> process_service_c3(m)
      [] k = SubC4 -> process_service_c4(m)

\* sum(validation_results.values()): the fields that are not None.
ComponentsReceivedOfSix(m) == 6

\* sum(validation_results.values()): the fields that are not None.
ComponentsReceived(m) == Cardinality({f \in OptionalFields : m[f] # NoneV})

SummaryTokens ==
    <<"summary:0:false", "summary:1:false", "summary:2:false", "summary:3:false",
      "summary:4:false", "summary:5:false", "summary:6:true">>

process_service_d_replace(m) ==
    [m EXCEPT !.metadata =
        (IF TruthyV(m.analysis) THEN ("statistics" :> "statistics") ELSE EmptyMap)
        @@ ("summary" :> SummaryTokens[ComponentsReceived(m) + 1])]

process_service_d(m) ==
    [m EXCEPT !.metadata =
        (IF TruthyV(m.analysis) THEN ("statistics" :> "statistics") ELSE EmptyMap)
        @@ ("summary" :> SummaryTokens[ComponentsReceived(m) + 1]) @@ @]

\* ------------------------------------------------------------------------
\* State
\* ------------------------------------------------------------------------

VARIABLES
    cm,        \* codec harness: the message to encode
    cenc,      \* codec harness: "dict" (to_dict/from_dict) or "proto" (binary schema)
    cwire,     \* codec harness: the encoded form
    cout,      \* codec harness: the decoded message
    cpc,       \* codec harness: "start", "encoded", "decoded"
    mdst,      \* merge harness: dst as it was when _merge_message was called
    mret,      \* merge harness: the object _merge_message returned
    mpc,       \* merge harness: "start", "merged"
    mode,      \* PIPELINE_MODE: "local", "rpc" or "grpc"
    clock,     \* time.time()
    heap,      \* the PipelineMessage objects, by identity
    services,  \* Pipeline.services: the registered names
    chain,     \* service_chain
    idx,       \* execute_pipeline: position in the chain
    ppc,       \* execute_pipeline: program point
    perr,      \* the exception execute_pipeline raised, << >> if none
    invoked,   \* the registered callables invoked so far, in order
    hubRef,    \* process_service_c: the object bound to `message`
    hpc,       \* process_service_c: program point
    wpc,       \* execute_with_tracking: program point of each worker
    wkeys,     \* each worker: the keys of the dict it is iterating
    wres,      \* each worker: the object bound to result_msg
    merged,    \* the futures the collector has taken
    cur,       \* the future the collector is merging, "none" if none
    ckeys,     \* collector: the keys of the dict it is iterating
    failed,    \* the sub-stages that raised or whose remote call failed
    raced,     \* the workers whose request encoding hit a concurrent insert
    hubin,     \* the hub's message as it stood when process_service_c was called
    conns,     \* text RPC: each connection's two ends
    sup,       \* text RPC: the server is serving
    nhandled,  \* text RPC: how many connections the server has handled
    pwire,     \* binary schema: the text in each <field>_json slot of a Message
    pres,      \* binary schema: what proto_to_pipeline_message made of it
    tmsg,      \* tracker: the message whose records are marked
    tclock,    \* tracker: what time.time() returns
    tpos,      \* tracker: per stage, how far the received/started/completed order got
    tlast,     \* tracker: the call made last, <<operation, stage>>
    fdata,     \* from_dict: the dictionary handed to PipelineMessage.from_dict
    fres,      \* from_dict: the message it returned, or the exception it raised
    vmsg,      \* timeline: the message handed to display_pipeline_execution
    vout       \* timeline: what it printed about the parallel batch

codecVars == <<cm, cenc, cwire, cout, cpc>>

mergeVars == <<mdst, mret, mpc>>

runnerVars == <<services, chain, idx, ppc, perr, invoked>>

hubVars == <<hubRef, hpc, wpc, wkeys, wres, merged, cur, ckeys,
             failed, raced, hubin>>

rpcVars == <<conns, sup, nhandled>>

protoVars == <<pwire, pres>>
trackerVars == <<tmsg, tclock, tpos, tlast>>
dictVars == <<fdata, fres>>
viewVars == <<vmsg, vout>>
unitVars == <<rpcVars, protoVars, trackerVars, dictVars, viewVars>>

vars == <<codecVars, mergeVars, unitVars, mode, clock, heap, runnerVars, hubVars>>

ResultObj(k) ==
    CASE k = SubC1 -> "result_c1"
      [] k = SubC2 -> "result_c2"
      [] k = SubC3 -> "result_c3"
      [] k = SubC4 -> "result_c4"

ObjIds == {"main", "hub", "top"} \cup {ResultObj(k) : k \in SubStages}

Unallocated == PipelineMessage("<unallocated>")

CodecIdle ==
    /\ cm = Unallocated /\ cenc = "dict" /\ cwire = << >>
    /\ cout = Unallocated /\ cpc = "idle"

MergeIdle == mdst = Unallocated /\ mret = "none" /\ mpc = "idle"

RunnerIdle ==
    /\ services = {} /\ chain = << >> /\ idx = 0 /\ ppc = "idle"
    /\ perr = << >> /\ invoked = << >>

Conns == {1, 2}

Unconnected ==
    [peer |-> "none", in |-> << >>, eof |-> FALSE, reads |-> 0, srv |-> "none",
     out |-> << >>, exc |-> << >>, seq |-> 0, cli |-> "none", got |-> "none",
     ret |-> << >>]

RpcIdle == conns = [c \in Conns |-> Unconnected] /\ sup = FALSE /\ nhandled = 0

JsonSlots ==
    {"analysis_json", "image_concept_json", "audio_script_json", "translations_json",
     "formatted_output_json", "metadata_json", "timestamps_json"}
ProtoIdle == pwire = [f \in JsonSlots |-> ""] /\ pres = [state |-> "none"]
TrackedStages == {"service_a_story_generator", "service_b_story_analyzer"}
TrackerIdle ==
    tmsg = PipelineMessage("<unallocated>") /\ tclock = 1
        /\ tpos = [n \in TrackedStages |-> "none"] /\ tlast = <<"none", "none">>
DictIdle == fdata = << >> /\ fres = [state |-> "none"]
ViewIdle == vmsg = Unallocated /\ vout = [state |-> "none"]
UnitIdle == RpcIdle /\ ProtoIdle /\ TrackerIdle /\ DictIdle /\ ViewIdle

HubIdle ==
    /\ hubRef = "none" /\ hpc = "idle"
    /\ wpc = [k \in SubStages |-> "idle"]
    /\ wkeys = [k \in SubStages |-> {}]
    /\ wres = [k \in SubStages |-> "none"]
    /\ merged = {} /\ cur = "none" /\ ckeys = {}
    /\ failed = {} /\ raced = {}
    /\ hubin = Unallocated

\* ------------------------------------------------------------------------
\* SpecCodec: encode then decode one message, in either encoding
\* ------------------------------------------------------------------------

MaxInstant == 1

CodecStrings == {NoneV, "", "story"}

CodecMaps == {NoneV, "{}", "map"}

CodecInstants == {NoneT} \cup (0 .. MaxInstant)

CodecTimestamps ==
    {EmptyMap} \cup
    {("stage" :> [service_name |-> "stage", received_time |-> r,
                  start_time |-> s, end_time |-> e]) :
        r \in CodecInstants, s \in CodecInstants, e \in CodecInstants}

CodecMetadata == {EmptyMap, ("theme" :> "space")}

CodecMessages ==
    [user_input : {"", "prompt"}, story_text : CodecStrings, analysis : CodecMaps,
     image_concept : CodecMaps, audio_script : CodecMaps, translations : CodecMaps,
     formatted_output : CodecMaps, timestamps : CodecTimestamps,
     metadata : CodecMetadata]

Encode(enc, m) == IF enc = "dict" THEN ToDict(m) ELSE pipeline_message_to_proto(m)

Decode(enc, w) == IF enc = "dict" THEN FromDict(w) ELSE proto_to_pipeline_message(w)

InitCodec ==
    /\ cm \in CodecMessages
    /\ cenc \in {"dict", "proto"}
    /\ cwire = << >> /\ cout = Unallocated /\ cpc = "start"
    /\ MergeIdle /\ RunnerIdle /\ HubIdle /\ UnitIdle
    /\ mode = "local" /\ clock = 1 /\ heap = [o \in ObjIds |-> Unallocated]

CodecEncode ==
    /\ cpc = "start"
    /\ cwire' = Encode(cenc, cm)
    /\ cpc' = "encoded"
    /\ UNCHANGED <<cm, cenc, cout, mergeVars, unitVars, mode, clock, heap, runnerVars, hubVars>>

CodecDecode ==
    /\ cpc = "encoded"
    /\ cout' = Decode(cenc, cwire)
    /\ cpc' = "decoded"
    /\ UNCHANGED <<cm, cenc, cwire, mergeVars, unitVars, mode, clock, heap, runnerVars, hubVars>>

NextCodec == CodecEncode \/ CodecDecode

SpecCodec == InitCodec /\ [][NextCodec]_vars

\* C6: an optional field that is unset in m is unset in decode(encode(m)),
\* for the dictionary form and for the binary-schema form.
C6_UnsetStaysUnset ==
    cpc = "decoded" =>
        \A f \in OptionalFields : cm[f] = NoneV => cout[f] = NoneV

\* A field is set when it is not None; an instant is set when it is not None.
RecordPreserved(r, q) ==
    /\ (r.received_time # NoneT => q.received_time = r.received_time)
    /\ (r.start_time # NoneT => q.start_time = r.start_time)
    /\ (r.end_time # NoneT => q.end_time = r.end_time)

\* C7: every field of m that is set has the same value in decode(encode(m)):
\* user_input, story_text, each structured field (the empty map too), every
\* metadata key, and each timestamp record's instants (the instant 0 too).
C7_SetFieldsPreserved ==
    cpc = "decoded" =>
        /\ cout.user_input = cm.user_input
        /\ \A f \in OptionalFields : cm[f] # NoneV => cout[f] = cm[f]
        /\ cout.metadata = cm.metadata
        /\ DOMAIN cm.timestamps \subseteq DOMAIN cout.timestamps
        /\ \A n \in DOMAIN cm.timestamps :
               n \in DOMAIN cout.timestamps =>
                   RecordPreserved(cm.timestamps[n], cout.timestamps[n])

\* ------------------------------------------------------------------------
\* SpecMerge: one call _merge_message(dst, src), dst the object "main" and
\* src the object "top" (the decoded remote result)
\* ------------------------------------------------------------------------

MergeRecordA == [service_name |-> StageA, received_time |-> 1, start_time |-> 1, end_time |-> NoneT]

MergeRecordRemoteA == [service_name |-> StageA, received_time |-> 2, start_time |-> 2, end_time |-> 3]

MergeRecordRemoteB == [service_name |-> StageB, received_time |-> 2, start_time |-> 3, end_time |-> 3]

MergeDsts ==
    [user_input : {"prompt"}, story_text : {NoneV, "old story"},
     analysis : {NoneV, "old"}, image_concept : {NoneV, "old"},
     audio_script : {"old"}, translations : {NoneV}, formatted_output : {"old"},
     timestamps : {EmptyMap, (StageA :> MergeRecordA)},
     metadata : {EmptyMap, ("theme" :> "old"), ("theme" :> "old") @@ ("characters" :> "old")}]

MergeSrcs ==
    [user_input : {"prompt"}, story_text : {NoneV, "", "story"},
     analysis : {NoneV, "{}", "new"}, image_concept : {NoneV, "{}", "new"},
     audio_script : {NoneV, "new"}, translations : {NoneV, "new"},
     formatted_output : {NoneV, "new"},
     timestamps : {EmptyMap, (StageA :> MergeRecordRemoteA),
                   (StageA :> MergeRecordRemoteA) @@ (StageB :> MergeRecordRemoteB)},
     metadata : {EmptyMap, ("theme" :> "new"), ("theme" :> "new") @@ ("summary" :> "new")}]

InitMerge ==
    /\ \E d \in MergeDsts, s \in MergeSrcs :
         /\ heap = [o \in ObjIds |-> IF o = "main" THEN d ELSE IF o = "top" THEN s
                                     ELSE Unallocated]
         /\ mdst = d
    /\ mret = "none" /\ mpc = "start"
    /\ CodecIdle /\ RunnerIdle /\ HubIdle /\ UnitIdle
    /\ mode = "rpc" /\ clock = 1

\* _merge_message mutates dst in place and returns it.
MergeCall ==
    /\ mpc = "start"
    /\ heap' = [heap EXCEPT !["main"] = merge_message(heap["main"], heap["top"])]
    /\ mret' = "main"
    /\ mpc' = "merged"
    /\ UNCHANGED <<codecVars, mdst, unitVars, mode, clock, runnerVars, hubVars>>

NextMerge == MergeCall

SpecMerge == InitMerge /\ [][NextMerge]_vars

\* C9: after _merge_message(dst, src) every non-null output field of src has
\* overwritten dst's and every null one left it unchanged; metadata is the
\* key union with src winning on a shared key; timestamps are the key union
\* with dst winning on a shared key; the object returned is dst.
C9_TopLevelMerge ==
    mpc = "merged" =>
        LET dst == heap["main"]
            src == heap["top"]
        IN /\ \A f \in OptionalFields :
                  dst[f] = IF src[f] # NoneV THEN src[f] ELSE mdst[f]
           /\ DOMAIN dst.metadata = DOMAIN mdst.metadata \cup DOMAIN src.metadata
           /\ \A k \in DOMAIN dst.metadata :
                  dst.metadata[k] = IF k \in DOMAIN src.metadata
                                    THEN src.metadata[k] ELSE mdst.metadata[k]
           /\ DOMAIN dst.timestamps = DOMAIN mdst.timestamps \cup DOMAIN src.timestamps
           /\ \A n \in DOMAIN dst.timestamps :
                  dst.timestamps[n] = IF n \in DOMAIN mdst.timestamps
                                      THEN mdst.timestamps[n] ELSE src.timestamps[n]
           /\ mret = "main"

\* A merge in which a field is overwritten, a null field is skipped, and both
\* maps have a shared key and a key only the remote result has.
C9_Witness ==
    /\ mpc = "merged"
    /\ mdst.analysis = "old" /\ heap["top"].analysis = "new"
    /\ mdst.image_concept = "old" /\ heap["top"].image_concept = NoneV
    /\ "theme" \in DOMAIN mdst.metadata /\ "summary" \in DOMAIN heap["top"].metadata
    /\ StageA \in DOMAIN mdst.timestamps /\ StageB \in DOMAIN heap["top"].timestamps

\* ------------------------------------------------------------------------
\* Remote stages: the _rpc_handler / _grpc_handler of a service, and one
\* round trip to it
\* ------------------------------------------------------------------------

TopStages == {StageA, StageB, StageC, StageD}

StageCall(name, m) ==
    CASE name = StageA -> process_service_a(m)
      [] name = StageB -> process_service_b(m)
      [] name = StageD -> process_service_d(m)
      [] OTHER -> m

StageRaises(name, m) == name = StageB /\ ServiceBRaises(m)

\* mark_received, mark_started, the stage, mark_completed on its result.
RpcHandler(name, pm, now) ==
    mark_completed(
        StageCall(name, mark_started(mark_received(pm, name, now), name, now)),
        name, now)

SubHandlerInput(k, pm, now) == mark_started(mark_received(pm, k, now), k, now)

\* The _rpc_handler of a sub-stage (C3, C4): mark_received, mark_started,
\* the sub-stage, mark_completed on its result.
SubHandler(k, pm, now) ==
    mark_completed(SubStageCall(k, SubHandlerInput(k, pm, now)), k, now)

\* The servers the hub addresses and the source does not hold (C1 and C2 in
\* either remote mode, every sub-stage over the binary schema): one
\* Process(Message) -> Message operation, the same for every stage.
HostedHandler(k, pm, now) ==
    mark_completed(SubStageCall(k, SubHandlerInput(k, pm, now)), k, now)

SubStageServer(md, k, pm, now) ==
    IF md = "rpc" /\ k \in {SubC3, SubC4}
    THEN SubHandler(k, pm, now)
    ELSE HostedHandler(k, pm, now)

\* The encoding a mode puts on the wire.
WireOf(md) == IF md = "grpc" THEN "proto" ELSE "dict"

\* The message a remote handler builds from the request of a caller holding m.
Received(md, m) == Decode(WireOf(md), Encode(WireOf(md), m))

\* _rpc_service._call / _grpc_service._call, when the remote call succeeds.
RemoteStage(md, name, m, now) ==
    merge_message(m, Received(md, RpcHandler(name, Received(md, m), now)))

\* ------------------------------------------------------------------------
\* Spec: main.py runs the chain through Pipeline.execute_pipeline; stage C
\* is the parallel hub
\* ------------------------------------------------------------------------

Modes == {"local", "rpc", "grpc"}

\* How many sub-stages of one hub run the environment lets fail (a local
\* sub-stage raising, a remote call failing).
MaxFailures == 1

StandardChain == <<StageA, StageB, StageC, StageD>>

\* The runs explored: a chain and the set of registered stages.  The standard
\* chain with every stage registered or one of A, B, C missing; a chain
\* without the hub, with D registered or missing; a chain without A, so
\* that B finds no story.
Setups ==
    {<<StandardChain, TopStages>>}
    \cup {<<StandardChain, TopStages \ {n}>> : n \in {StageA, StageB, StageC}}
    \cup {<<<<StageA, StageB, StageD>>, TopStages>>,
          <<<<StageA, StageB, StageD>>, TopStages \ {StageD}>>,
          <<<<StageB, StageC, StageD>>, TopStages>>}

Shared == heap[hubRef]

Init ==
    /\ mode \in Modes
    /\ clock = 1
    /\ heap = [o \in ObjIds |->
                 IF o = "main"
                 THEN mark_started(PipelineMessage("prompt"), MainProgram, 1)
                 ELSE Unallocated]
    /\ \E su \in Setups : chain = su[1] /\ services = su[2]
    /\ idx = 1 /\ ppc = "check" /\ perr = << >> /\ invoked = << >>
    /\ CodecIdle /\ MergeIdle /\ HubIdle /\ UnitIdle

\* "if service_name in self.services"
IsRegistered(name) == name \in services

\* The loop test of execute_pipeline, and its "return message"; main then
\* marks main_program completed.
RunnerReturn ==
    /\ ppc = "check" /\ idx > Len(chain)
    /\ ppc' = "done"
    /\ heap' = [heap EXCEPT !["main"] = mark_completed(@, MainProgram, clock)]
    /\ UNCHANGED <<codecVars, mergeVars, unitVars, mode, clock, services, chain, idx, perr,
                   invoked, hubVars>>

RunnerCheck ==
    /\ ppc = "check" /\ idx <= Len(chain)
    /\ IF IsRegistered(chain[idx])
       THEN ppc' = "receive" /\ perr' = perr
       ELSE ppc' = "raised" /\ perr' = <<"not registered", chain[idx]>>
    /\ UNCHANGED <<codecVars, mergeVars, unitVars, mode, clock, heap, services, chain, idx,
                   invoked, hubVars>>

RunnerMarkReceived ==
    /\ ppc = "receive"
    /\ heap' = [heap EXCEPT !["main"] = mark_received(@, chain[idx], clock)]
    /\ ppc' = "start"
    /\ UNCHANGED <<codecVars, mergeVars, unitVars, mode, clock, services, chain, idx, perr,
                   invoked, hubVars>>

RunnerMarkStarted ==
    /\ ppc = "start"
    /\ heap' = [heap EXCEPT !["main"] = mark_started(@, chain[idx], clock)]
    /\ ppc' = "invoke"
    /\ UNCHANGED <<codecVars, mergeVars, unitVars, mode, clock, services, chain, idx, perr,
                   invoked, hubVars>>

\* service_func(message) for a local A, B or D: the stage mutates the message
\* and returns it, or B raises.
RunnerInvokeLocal ==
    /\ ppc = "invoke" /\ mode = "local" /\ chain[idx] # StageC
    /\ invoked' = Append(invoked, chain[idx])
    /\ IF StageRaises(chain[idx], heap["main"])
       THEN /\ ppc' = "raised"
            /\ perr' = <<"ValueError", "Story text required for analysis">>
            /\ heap' = heap
       ELSE /\ ppc' = "complete"
            /\ perr' = perr
            /\ heap' = [heap EXCEPT !["main"] = StageCall(chain[idx], @)]
    /\ UNCHANGED <<codecVars, mergeVars, unitVars, mode, clock, services, chain, idx, hubVars>>

RunnerInvokeRemoteRollsBack ==
    /\ ppc = "invoke" /\ mode # "local" /\ chain[idx] # StageC
    /\ invoked' = Append(invoked, chain[idx])
    /\ \/ /\ ~StageRaises(chain[idx], Received(mode, heap["main"]))
          /\ heap' = [heap EXCEPT !["main"] = RemoteStage(mode, chain[idx], @, clock)]
          /\ ppc' = "complete"
          /\ perr' = perr
       \/ /\ StageRaises(chain[idx], Received(mode, heap["main"]))
          /\ heap' = [heap EXCEPT !["main"] =
                          mark_started(PipelineMessage("prompt"), MainProgram, 1)]
          /\ ppc' = "raised"
          /\ perr' = <<"RuntimeError", "Story text required for analysis">>
       \/ /\ heap' = [heap EXCEPT !["main"] =
                          mark_started(PipelineMessage("prompt"), MainProgram, 1)]
          /\ ppc' = "raised"
          /\ perr' = <<"RuntimeError", "transport">>
    /\ UNCHANGED <<codecVars, mergeVars, unitVars, mode, clock, services, chain, idx, hubVars>>

\* service_func(message) for a remote A, B or D: one round trip, then
\* _merge_message into the local message; an error response or a transport
\* failure raises out of execute_pipeline.
RunnerInvokeRemote ==
    /\ ppc = "invoke" /\ mode # "local" /\ chain[idx] # StageC
    /\ invoked' = Append(invoked, chain[idx])
    /\ \/ /\ ~StageRaises(chain[idx], Received(mode, heap["main"]))
          /\ heap' = [heap EXCEPT !["main"] = RemoteStage(mode, chain[idx], @, clock)]
          /\ ppc' = "complete"
          /\ perr' = perr
       \/ /\ StageRaises(chain[idx], Received(mode, heap["main"]))
          /\ heap' = heap
          /\ ppc' = "raised"
          /\ perr' = <<"RuntimeError", "Story text required for analysis">>
       \/ /\ heap' = heap
          /\ ppc' = "raised"
          /\ perr' = <<"RuntimeError", "transport">>
    /\ UNCHANGED <<codecVars, mergeVars, unitVars, mode, clock, services, chain, idx, hubVars>>

RunnerSkipsCompleted ==
    /\ ppc = "complete"
    /\ idx' = idx + 1
    /\ ppc' = "check"
    /\ clock' = clock + 1
    /\ UNCHANGED <<codecVars, mergeVars, unitVars, mode, heap, services, chain, perr,
                   invoked, hubVars>>

\* tracker.mark_completed(message, service_name); the clock has moved on by
\* the time the next stage is marked.
RunnerMarkCompleted ==
    /\ ppc = "complete"
    /\ heap' = [heap EXCEPT !["main"] = mark_completed(@, chain[idx], clock)]
    /\ idx' = idx + 1
    /\ ppc' = "check"
    /\ clock' = clock + 1
    /\ UNCHANGED <<codecVars, mergeVars, unitVars, mode, services, chain, perr,
                   invoked, hubVars>>

\* ------------------------------------------------------------------------
\* process_service_c: the parallel hub
\* ------------------------------------------------------------------------
\*
\* The four workers and the collector are threads over one shared message.
\* A step is what a thread does between two points where another thread can
\* see or disturb it: an insert into the shared timestamps dict, the start
\* and the end of an iteration over it, a write of a field.  The executor
\* hands out the four tasks at once (a task not yet scheduled is a task
\* not yet submitted, for every other thread).  time.time() moves on
\* between two stages of the chain and stands still within one.

\* Stage C called in process (local mode): process_service_c(message) marks
\* the hub started on the pipeline's own message.
HubEnterLocal ==
    /\ ppc = "invoke" /\ mode = "local" /\ chain[idx] = StageC
    /\ invoked' = Append(invoked, StageC)
    /\ ppc' = "hub"
    /\ hubRef' = "main"
    /\ hubin' = heap["main"]
    /\ heap' = [heap EXCEPT !["main"] = mark_started(@, StageC, clock)]
    /\ hpc' = "collect"
    /\ wpc' = [k \in SubStages |-> "ready"]
    /\ UNCHANGED <<codecVars, mergeVars, unitVars, mode, clock, services, chain, idx, perr,
                   wkeys, wres, merged, cur, ckeys, failed, raced>>

\* Stage C called remotely: the hub's handler decodes the request into its
\* own message, marks it received and started and calls process_service_c;
\* or the call fails and raises out of execute_pipeline.
HubEnterRemote ==
    /\ ppc = "invoke" /\ mode # "local" /\ chain[idx] = StageC
    /\ invoked' = Append(invoked, StageC)
    /\ \/ LET pm == mark_started(mark_received(Received(mode, heap["main"]),
                                               StageC, clock), StageC, clock)
          IN /\ ppc' = "hub"
             /\ hubRef' = "hub"
             /\ hubin' = pm
             /\ heap' = [heap EXCEPT !["hub"] = mark_started(pm, StageC, clock)]
             /\ hpc' = "collect"
             /\ wpc' = [k \in SubStages |-> "ready"]
             /\ perr' = perr
       \/ /\ ppc' = "raised"
          /\ perr' = <<"RuntimeError", "transport">>
          /\ UNCHANGED <<hubRef, hubin, heap, hpc, wpc>>
    /\ UNCHANGED <<codecVars, mergeVars, unitVars, mode, clock, services, chain, idx,
                   wkeys, wres, merged, cur, ckeys, failed, raced>>

WorkerMarkStartedInTurn(k) ==
    /\ wpc[k] = "ready"
    /\ \A j \in SubStages : (wpc[j] \notin {"ready", "done", "raised"}) => j = k
    /\ heap' = [heap EXCEPT ![hubRef] =
                    mark_started(mark_received(@, k, clock), k, clock)]
    /\ wpc' = [wpc EXCEPT ![k] = "started"]
    /\ UNCHANGED <<codecVars, mergeVars, unitVars, mode, clock, runnerVars, hubRef, hpc,
                   wkeys, wres, merged, cur, ckeys, failed, raced, hubin>>

\* execute_with_tracking: tracker.mark_received(msg, service_name), which
\* inserts the sub-stage's record into the shared message, and
\* tracker.mark_started(msg, service_name), which fills in a field of that
\* record.
WorkerMarkStarted(k) ==
    /\ wpc[k] = "ready"
    /\ heap' = [heap EXCEPT ![hubRef] =
                    mark_started(mark_received(@, k, clock), k, clock)]
    /\ wpc' = [wpc EXCEPT ![k] = "started"]
    /\ UNCHANGED <<codecVars, mergeVars, unitVars, mode, clock, runnerVars, hubRef, hpc,
                   wkeys, wres, merged, cur, ckeys, failed, raced, hubin>>

\* Local callable: service_target(msg) mutates the shared message and
\* returns it, or raises (the future then holds the exception).
WorkerCallLocal(k) ==
    /\ wpc[k] = "started" /\ mode = "local"
    /\ \/ /\ heap' = [heap EXCEPT ![hubRef] = SubStageCall(k, @)]
          /\ wres' = [wres EXCEPT ![k] = hubRef]
          /\ wpc' = [wpc EXCEPT ![k] = "returned"]
          /\ failed' = failed
       \/ /\ Cardinality(failed) < MaxFailures
          /\ failed' = failed \cup {k}
          /\ wpc' = [wpc EXCEPT ![k] = "raised"]
          /\ UNCHANGED <<heap, wres>>
    /\ UNCHANGED <<codecVars, mergeVars, unitVars, mode, clock, runnerVars, hubRef, hpc, wkeys, merged, cur, ckeys, raced, hubin>>

\* Remote target: msg.to_dict() / pipeline_message_to_proto(msg) starts to
\* iterate the shared message's timestamps.
WorkerEncodeBegin(k) ==
    /\ wpc[k] = "started" /\ mode # "local"
    /\ wkeys' = [wkeys EXCEPT ![k] = DOMAIN Shared.timestamps]
    /\ wpc' = [wpc EXCEPT ![k] = "encoding"]
    /\ UNCHANGED <<codecVars, mergeVars, unitVars, mode, clock, heap, runnerVars, hubRef, hpc,
                   wres, merged, cur, ckeys, failed, raced,
                   hubin>>

\* The iteration ends.  If a key was inserted meanwhile the dict iterator
\* raises RuntimeError, which the worker's "except Exception" turns into
\* result_msg = msg.  Otherwise the request goes out with the message as it
\* stands; the call fails (connection, timeout, error response) and
\* result_msg = msg, or the decoded response is a message of the worker's
\* own, which it marks completed before the future is done.  What happens
\* between the send and the end of the future touches nothing another thread
\* can see, and the collector takes a finished future when it likes.
WorkerRemoteCall(k) ==
    /\ wpc[k] = "encoding"
    /\ wkeys' = [wkeys EXCEPT ![k] = {}]
    /\ IF DOMAIN Shared.timestamps # wkeys[k]
       THEN /\ wres' = [wres EXCEPT ![k] = hubRef]
            /\ raced' = raced \cup {k}
            /\ wpc' = [wpc EXCEPT ![k] = "returned"]
            /\ UNCHANGED <<heap, failed>>
       ELSE \/ /\ heap' = [heap EXCEPT ![ResultObj(k)] =
                              mark_completed(
                                  Received(mode, SubStageServer(mode, k, Received(mode, Shared), clock)),
                                  k, clock)]
               /\ wres' = [wres EXCEPT ![k] = ResultObj(k)]
               /\ wpc' = [wpc EXCEPT ![k] = "done"]
               /\ UNCHANGED <<failed, raced>>
            \/ /\ Cardinality(failed) < MaxFailures
               /\ failed' = failed \cup {k}
               /\ wres' = [wres EXCEPT ![k] = hubRef]
               /\ wpc' = [wpc EXCEPT ![k] = "returned"]
               /\ UNCHANGED <<heap, raced>>
    /\ UNCHANGED <<codecVars, mergeVars, unitVars, mode, clock, runnerVars, hubRef, hpc,
                   merged, cur, ckeys, hubin>>

WorkerSkipsCompleted(k) ==
    /\ wpc[k] = "returned"
    /\ IF wres[k] = hubRef
       THEN heap' = heap
       ELSE /\ heap' = [heap EXCEPT ![wres[k]] = mark_completed(@, k, clock)]
    /\ wpc' = [wpc EXCEPT ![k] = "done"]
    /\ UNCHANGED <<codecVars, mergeVars, unitVars, mode, clock, runnerVars, hubRef, hpc, wkeys, wres, merged, cur, ckeys, failed, raced, hubin>>

\* execute_with_tracking: tracker.mark_completed(result_msg, service_name),
\* then the future is done.
WorkerMarkCompleted(k) ==
    /\ wpc[k] = "returned"
    /\ IF wres[k] = hubRef
       THEN heap' = [heap EXCEPT ![hubRef] = mark_completed(@, k, clock)]
       ELSE /\ heap' = [heap EXCEPT ![wres[k]] = mark_completed(@, k, clock)]
    /\ wpc' = [wpc EXCEPT ![k] = "done"]
    /\ UNCHANGED <<codecVars, mergeVars, unitVars, mode, clock, runnerVars, hubRef, hpc, wkeys, wres, merged, cur, ckeys, failed, raced, hubin>>

CollectorLetsRaise(k) ==
    /\ hpc = "collect" /\ cur = "none" /\ k \notin merged
    /\ wpc[k] = "raised"
    /\ hpc' = "raised"
    /\ UNCHANGED <<codecVars, mergeVars, unitVars, mode, clock, heap, runnerVars, hubRef,
                   wpc, wkeys, wres, merged, cur, ckeys, failed, raced,
                   hubin>>

\* as_completed yields a finished future.  future.result() re-raises a
\* worker's exception, which the collector's "except Exception" swallows.
CollectorTakeRaised(k) ==
    /\ hpc = "collect" /\ cur = "none" /\ k \notin merged
    /\ wpc[k] = "raised"
    /\ merged' = merged \cup {k}
    /\ UNCHANGED <<codecVars, mergeVars, unitVars, mode, clock, heap, runnerVars, hubRef, hpc,
                   wpc, wkeys, wres, cur, ckeys, failed, raced,
                   hubin>>

\* The future holds a message of its own (a decoded response): nothing else
\* touches it, so the four field copies and the timestamp loop run through;
\* the loop variable is then rebound and the response is garbage.
CollectorTakeResponse(k) ==
    /\ hpc = "collect" /\ cur = "none" /\ k \notin merged
    /\ wpc[k] = "done" /\ wres[k] # hubRef
    /\ heap' = [heap EXCEPT ![hubRef] = HubMerge(@, heap[wres[k]]),
                            ![wres[k]] = Unallocated]
    /\ merged' = merged \cup {k}
    /\ UNCHANGED <<codecVars, mergeVars, unitVars, mode, clock, runnerVars, hubRef, hpc,
                   wpc, wkeys, wres, cur, ckeys, failed, raced,
                   hubin>>

\* The future holds the shared message itself (a local sub-stage, or a
\* remote one that degraded): the four fields are copied onto themselves and
\* the iteration of result_message.timestamps, which is message.timestamps,
\* starts.
CollectorTakeShared(k) ==
    /\ hpc = "collect" /\ cur = "none" /\ k \notin merged
    /\ wpc[k] = "done" /\ wres[k] = hubRef
    /\ heap' = [heap EXCEPT ![hubRef] = HubMergeFields(@, Shared)]
    /\ cur' = k
    /\ ckeys' = DOMAIN Shared.timestamps
    /\ UNCHANGED <<codecVars, mergeVars, unitVars, mode, clock, runnerVars, hubRef, hpc, wpc, wkeys, wres, merged, failed, raced, hubin>>

\* That iteration ends: a key inserted by another worker meanwhile raises
\* RuntimeError, swallowed by "except Exception"; otherwise every key was
\* found present and nothing was written.
CollectorMerge ==
    /\ hpc = "collect" /\ cur # "none"
    /\ IF DOMAIN Shared.timestamps # ckeys
       THEN heap' = heap
       ELSE heap' = [heap EXCEPT ![hubRef] = HubMergeTimestamps(@, Shared)]
    /\ merged' = merged \cup {cur}
    /\ cur' = "none"
    /\ ckeys' = {}
    /\ UNCHANGED <<codecVars, mergeVars, unitVars, mode, clock, runnerVars, hubRef, hpc, wpc, wkeys, wres, failed, raced, hubin>>

HubReturnLocalEarly ==
    /\ hpc = "collect" /\ cur = "none" /\ mode = "local"
    /\ heap' = [heap EXCEPT ![hubRef] = mark_completed(@, StageC, clock)]
    /\ hpc' = "returned"
    /\ ppc' = "complete"
    /\ UNCHANGED <<codecVars, mergeVars, unitVars, mode, clock, services, chain, idx, perr,
                   invoked, hubRef, wpc, wkeys, wres, merged,
                   cur, ckeys, failed, raced, hubin>>

\* All four futures are taken: mark the hub completed and return the
\* message to execute_pipeline (local mode).
HubReturnLocal ==
    /\ hpc = "collect" /\ merged = SubStages /\ cur = "none" /\ mode = "local"
    /\ heap' = [heap EXCEPT ![hubRef] = mark_completed(@, StageC, clock)]
    /\ hpc' = "returned"
    /\ ppc' = "complete"
    /\ UNCHANGED <<codecVars, mergeVars, unitVars, mode, clock, services, chain, idx, perr,
                   invoked, hubRef, wpc, wkeys, wres, merged,
                   cur, ckeys, failed, raced, hubin>>

\* All four futures are taken (remote hub): mark the hub completed, the
\* handler marks it completed again and encodes the message; the caller
\* decodes the response and merges it into the pipeline's message.
HubReturnRemote ==
    /\ hpc = "collect" /\ merged = SubStages /\ cur = "none" /\ mode # "local"
    /\ LET result == mark_completed(mark_completed(Shared, StageC, clock), StageC, clock)
           remote == Received(mode, result)
       IN /\ heap' = [heap EXCEPT !["hub"] = result,
                                  !["top"] = remote,
                                  !["main"] = merge_message(@, remote)]
    /\ hpc' = "returned"
    /\ ppc' = "complete"
    /\ UNCHANGED <<codecVars, mergeVars, unitVars, mode, clock, services, chain, idx, perr,
                   invoked, hubRef, wpc, wkeys, wres, merged,
                   cur, ckeys, failed, raced, hubin>>

Worker(k) ==
    \/ WorkerMarkStarted(k)
    \/ WorkerCallLocal(k)
    \/ WorkerEncodeBegin(k)
    \/ WorkerRemoteCall(k)
    \/ WorkerMarkCompleted(k)

Next ==
    \/ RunnerReturn
    \/ RunnerCheck
    \/ RunnerMarkReceived
    \/ RunnerMarkStarted
    \/ RunnerInvokeLocal
    \/ RunnerInvokeRemote
    \/ RunnerMarkCompleted
    \/ HubEnterLocal
    \/ HubEnterRemote
    \/ \E k \in SubStages : Worker(k)
    \/ \E k \in SubStages : CollectorTakeRaised(k)
    \/ \E k \in SubStages : CollectorTakeResponse(k)
    \/ \E k \in SubStages : CollectorTakeShared(k)
    \/ CollectorMerge
    \/ HubReturnLocal
    \/ HubReturnRemote

Spec == Init /\ [][Next]_vars

\* ------------------------------------------------------------------------
\* Properties of the run
\* ------------------------------------------------------------------------

NotRegisteredRaised == ppc = "raised" /\ perr # << >> /\ perr[1] = "not registered"

\* C1: when execute_pipeline raises for an unregistered stage name, no
\* registered callable of the chain has been invoked and no timestamp record
\* has been added to the message (it still holds only the record main put
\* there), wherever the unregistered name sits in the chain.
C1_RaisesBeforeAnyStage ==
    NotRegisteredRaised =>
        /\ invoked = << >>
        /\ DOMAIN heap["main"].timestamps = {MainProgram}

HubReturned == hpc = "returned"

HubCompletionMarked ==
    /\ StageC \in DOMAIN Shared.timestamps
    /\ Shared.timestamps[StageC].end_time # NoneT

\* C2: if exactly one of the four sub-stages failed, the hub has returned
\* with the output field of each of the other three populated and its own
\* completion marked.
C2_FaultIsolation ==
    (HubReturned /\ Cardinality(failed) = 1) =>
        /\ \A j \in SubStages \ failed : Shared[OwnField(j)] # NoneV
        /\ HubCompletionMarked

\* The message a sub-stage is given when its call goes ahead now: the shared
\* object itself for a local callable, the decoded request for a remote one.
CallEnabled(k) ==
    IF mode = "local"
    THEN wpc[k] = "started"
    ELSE wpc[k] = "encoding" /\ DOMAIN Shared.timestamps = wkeys[k]

InputOf(k) == IF mode = "local" THEN Shared ELSE Received(mode, Shared)

\* C3: the message a sub-stage is called with carries nothing another
\* sub-stage of the same hub run wrote: no output field, no metadata key and
\* no timestamp record beyond what the hub was entered with.
C3_SnapshotIsolation ==
    \A k \in SubStages :
        (hpc = "collect" /\ CallEnabled(k)) =>
            /\ \A j \in SubStages \ {k} :
                  /\ InputOf(k)[OwnField(j)] = hubin[OwnField(j)]
                  /\ j \notin DOMAIN InputOf(k).timestamps
            /\ DOMAIN InputOf(k).metadata = DOMAIN hubin.metadata

\* The futures that are done and that the collector has not taken yet.
Pending == {k \in SubStages \ merged : wpc[k] = "done"}

\* The object a future holds: the shared message itself, or a response.
ResultAt(message, k) == IF wres[k] = hubRef THEN message ELSE heap[wres[k]]

RECURSIVE MergeAll(_, _)
MergeAll(message, order) ==
    IF order = << >>
    THEN message
    ELSE MergeAll(HubMerge(message, ResultAt(message, Head(order))), Tail(order))

Orders(S) ==
    {p \in [1..Cardinality(S) -> S] : \A i, j \in DOMAIN p : i # j => p[i] # p[j]}

\* C4: whatever results wait to be merged, merging them into the shared
\* message in any order of completion gives the same message, field for
\* field, metadata and timestamps map included.
C4_MergeCommutes ==
    (hpc = "collect" /\ cur = "none") =>
        LET first == CHOOSE q \in Orders(Pending) : TRUE
        IN \A p \in Orders(Pending) : MergeAll(Shared, p) = MergeAll(Shared, first)

\* The four responses wait unmerged, and they do not carry the same
\* timestamps.
C4_Witness ==
    /\ hpc = "collect" /\ cur = "none" /\ Pending = SubStages
    /\ \A k \in SubStages : wres[k] # hubRef
    /\ \E j, k \in SubStages : heap[wres[j]].timestamps # heap[wres[k]].timestamps
    /\ \E j, k \in SubStages :
          DOMAIN heap[wres[j]].timestamps # DOMAIN heap[wres[k]].timestamps

HubMergeStep == hubRef # "none" /\ hubRef' = hubRef /\ merged' # merged

TopMergeStep ==
    /\ mode # "local"
    /\ ppc \in {"invoke", "hub"}
    /\ ppc' = "complete"

KeepsRecords(o) ==
    \A n \in DOMAIN heap[o].timestamps :
        /\ n \in DOMAIN heap'[o].timestamps
        /\ heap'[o].timestamps[n] = heap[o].timestamps[n]

\* C8: in every step of a run the timestamps map of the pipeline's message
\* (and of the hub's own message, when the hub is remote) keeps all its
\* keys, and a step that merges another message into it leaves every record
\* it already held as it was.
C8_TimestampsNeverShrink ==
    [][/\ \A o \in {"main", "hub"} :
            DOMAIN heap[o].timestamps \subseteq DOMAIN heap'[o].timestamps
       /\ TopMergeStep => KeepsRecords("main")
       /\ HubMergeStep => KeepsRecords(hubRef)]_vars

\* The remote hub's response has been merged into the pipeline's message,
\* whose record of the hub is not the one the response carried.
C8_Witness ==
    /\ mode # "local" /\ hpc = "returned" /\ ppc = "complete"
    /\ StageC \in DOMAIN heap["top"].timestamps
    /\ heap["main"].timestamps[StageC] # heap["top"].timestamps[StageC]
    /\ DOMAIN heap["top"].timestamps \subseteq DOMAIN heap["main"].timestamps

\* What the hub returns for an input when the four sub-stages are local
\* callables and none fails.
LocalSub(m, k) ==
    mark_completed(
        SubStageCall(k, mark_started(mark_received(m, k, clock), k, clock)),
        k, clock)

LocalHubResult(m) ==
    mark_completed(
        LocalSub(LocalSub(LocalSub(LocalSub(mark_started(m, StageC, clock),
                                            SubC1), SubC2), SubC3), SubC4),
        StageC, clock)

\* Output fields, metadata keys, and which instants each record has.
Shape(m) ==
    [fields |-> [f \in OutputFields |-> m[f]],
     metadata |-> DOMAIN m.metadata,
     timestamps |-> [n \in DOMAIN m.timestamps |->
                       <<m.timestamps[n].received_time # NoneT,
                         m.timestamps[n].start_time # NoneT,
                         m.timestamps[n].end_time # NoneT>>]]

\* C10: with no failing sub-stage, the message the hub returns has the
\* output fields, metadata keys and timestamp records (as to which instants
\* are set) that the local binding gives for the same input, whatever the
\* binding.
C10_BindingEquivalence ==
    (HubReturned /\ failed = {} /\ raced = {}) =>
        Shape(Shared) = Shape(LocalHubResult(hubin))

\* ------------------------------------------------------------------------
\* SpecRpc: core/rpc.py, the text RPC server and its client
\* ------------------------------------------------------------------------
\*
\* A connection has a peer (rpc_call, or any other program that writes
\* lines to the socket), the lines the peer wrote, the lines the server
\* wrote, and the state of each end.  The server runs one _RPCHandler per
\* connection, each in a thread of its own; the handlers share nothing but
\* the injected handler function, whose outcome on a request is the
\* environment's choice.

MaxLines == 2

\* A request line: a JSON object (with or without "id" and "params"), JSON
\* that is not an object, or bytes that are not JSON.
ObjectLine(id, params) == [kind |-> "object", id |-> id, params |-> params]

NonObjectLine == [kind |-> "value", id |-> NoneV, params |-> NoneV]

GarbageLine == [kind |-> "garbage", id |-> NoneV, params |-> NoneV]

RequestLines ==
    {ObjectLine("7", "message"), ObjectLine(NoneV, NoneV), NonObjectLine, GarbageLine}

RawInputs == UNION {[1..n -> RequestLines] : n \in 0..MaxLines}

\* req = {"id": "1", "method": "process", "params": params}
RpcRequest(params) == ObjectLine("1", params)

\* What the injected handler does with a request: it returns a dict, or it
\* raises an exception whose str() is msg.
Outcomes ==
    {[raises |-> FALSE, msg |-> ""], [raises |-> TRUE, msg |-> "boom"],
     [raises |-> TRUE, msg |-> ""]}

ResultLine(id, result) == [id |-> id, error |-> << >>, result |-> <<result>>]

ErrorLine(id, error) == [id |-> id, error |-> <<error>>, result |-> << >>]

DelegateUncaught(data, outcome) ==
    IF data.kind # "object" \/ outcome.raises
    THEN [out |-> << >>, escaped |-> TRUE]
    ELSE [out |-> <<ResultLine(data.id, <<"result", data.params>>)>>, escaped |-> FALSE]

DelegateNullId(data, outcome) ==
    IF data.kind # "object"
    THEN [out |-> << >>, escaped |-> TRUE]
    ELSE IF outcome.raises
    THEN [out |-> <<ErrorLine(data.id, outcome.msg)>>, escaped |-> FALSE]
    ELSE [out |-> <<ResultLine(NoneV, <<"result", data.params>>)>>, escaped |-> FALSE]

\* handle(), from "# Delegate" on.  data.get on JSON that is not an object
\* raises AttributeError inside the try and again inside the except clause,
\* from where it escapes handle() before anything is written.
Delegate(data, outcome) ==
    IF data.kind # "object"
    THEN [out |-> << >>, escaped |-> TRUE]
    ELSE IF outcome.raises
    THEN [out |-> <<ErrorLine(data.id, outcome.msg)>>, escaped |-> FALSE]
    ELSE [out |-> <<ResultLine(data.id, <<"result", data.params>>)>>, escaped |-> FALSE]

\* handle() on the line it read: json.loads fails, or the request is
\* delegated.
HandleLine(raw, outcome) ==
    IF raw.kind = "garbage"
    THEN [out |-> <<ErrorLine(NoneV, "invalid_json")>>, escaped |-> FALSE]
    ELSE Delegate(raw, outcome)

LinesReadAll(buf) == Len(buf)

\* "raw = self.rfile.readline()", once: how many of the waiting lines
\* handle() reads.
LinesRead(buf) == IF buf = << >> THEN 0 ELSE 1

RECURSIVE HandleLines(_, _)
HandleLines(lines, outcome) ==
    IF lines = << >>
    THEN [out |-> << >>, escaped |-> FALSE]
    ELSE LET first == HandleLine(Head(lines), outcome)
             rest == HandleLines(Tail(lines), outcome)
         IN IF first.escaped
            THEN first
            ELSE [out |-> first.out \o rest.out, escaped |-> rest.escaped]

ServerAfterStops(escaped) == ~escaped

\* ThreadingMixIn: an exception that escapes handle() ends that connection's
\* thread, not the server.
ServerAfter(escaped) == TRUE

TruthyError(e) == e # << >> /\ e[1] # ""

RpcCallResultUnchecked(buf) ==
    IF buf = << >>
    THEN [cli |-> "returned", ret |-> <<NoneV>>]
    ELSE IF TruthyError(buf[1].error)
    THEN [cli |-> "raised", ret |-> <<"RuntimeError", buf[1].error[1]>>]
    ELSE [cli |-> "returned", ret |-> <<Get(buf[1].result)>>]

\* rpc_call, from "if not buf" on: buf holds what recv gave up to the first
\* newline or the end of the stream.
RpcCallResult(buf) ==
    IF buf = << >>
    THEN [cli |-> "raised", ret |-> <<"RuntimeError", "no response from server">>]
    ELSE IF TruthyError(buf[1].error)
    THEN [cli |-> "raised", ret |-> <<"RuntimeError", buf[1].error[1]>>]
    ELSE [cli |-> "returned", ret |-> <<Get(buf[1].result)>>]

InitRpc ==
    /\ conns = [c \in Conns |-> Unconnected]
    /\ sup = TRUE /\ nhandled = 0
    /\ ProtoIdle /\ TrackerIdle /\ DictIdle /\ ViewIdle
    /\ CodecIdle /\ MergeIdle /\ RunnerIdle /\ HubIdle
    /\ mode = "rpc" /\ clock = 1 /\ heap = [o \in ObjIds |-> Unallocated]

rpcFrame == <<codecVars, mergeVars, protoVars, trackerVars, dictVars, viewVars, mode, clock, heap, runnerVars, hubVars>>

\* rpc_call: socket.create_connection and sock.sendall(payload).
ClientCall(c) ==
    /\ conns[c].peer = "none"
    /\ conns' = [conns EXCEPT ![c] =
                    [Unconnected EXCEPT !.peer = "rpc_call",
                                        !.in = <<RpcRequest("message")>>,
                                        !.srv = "open", !.cli = "recv"]]
    /\ UNCHANGED <<sup, nhandled, rpcFrame>>

\* Another program connects, writes some lines (or none) and shuts its
\* side of the stream.
RawPeer(c) ==
    /\ conns[c].peer = "none"
    /\ \E lines \in RawInputs :
         conns' = [conns EXCEPT ![c] =
                      [Unconnected EXCEPT !.peer = "raw", !.in = lines,
                                          !.eof = TRUE, !.srv = "open"]]
    /\ UNCHANGED <<sup, nhandled, rpcFrame>>

\* _RPCHandler.handle for one connection, and the end of the connection
\* when it returns or lets an exception escape.
ServerHandle(c) ==
    /\ sup
    /\ conns[c].srv = "open"
    /\ conns[c].in # << >> \/ conns[c].eof
    /\ \E outcome \in Outcomes :
         LET n == LinesRead(conns[c].in)
             h == HandleLines(SubSeq(conns[c].in, 1, n), outcome)
         IN /\ conns' = [conns EXCEPT ![c].reads = n,
                                      ![c].out = h.out,
                                      ![c].exc = IF n > 0 /\ conns[c].in[1].kind = "object"
                                                    /\ outcome.raises
                                                 THEN <<"raised", outcome.msg>>
                                                 ELSE IF h.escaped THEN <<"escaped">>
                                                 ELSE << >>,
                                      ![c].seq = nhandled + 1,
                                      ![c].srv = "closed"]
            /\ sup' = ServerAfter(h.escaped)
    /\ nhandled' = nhandled + 1
    /\ UNCHANGED rpcFrame

\* The far end goes away before it wrote anything: recv returns b"".
PeerCloses(c) ==
    /\ conns[c].peer = "rpc_call" /\ conns[c].srv = "open"
    /\ conns' = [conns EXCEPT ![c].srv = "closed", ![c].exc = <<"dropped">>]
    /\ UNCHANGED <<sup, nhandled, rpcFrame>>

\* rpc_call: the recv loop ends with a line or with the end of the stream,
\* and the response is parsed.
ClientReceive(c) ==
    /\ conns[c].cli = "recv"
    /\ conns[c].out # << >> \/ conns[c].srv = "closed"
    /\ LET r == RpcCallResult(conns[c].out)
       IN conns' = [conns EXCEPT ![c].cli = r.cli, ![c].ret = r.ret,
                                 ![c].got = IF conns[c].out = << >> THEN "eof" ELSE "line"]
    /\ UNCHANGED <<sup, nhandled, rpcFrame>>

\* rpc_call: recv times out (socket.timeout escapes).
ClientTimeout(c) ==
    /\ conns[c].cli = "recv"
    /\ conns[c].out = << >> /\ conns[c].srv = "open"
    /\ conns' = [conns EXCEPT ![c].cli = "raised", ![c].ret = <<"timeout", "timed out">>,
                              ![c].got = "timeout"]
    /\ UNCHANGED <<sup, nhandled, rpcFrame>>

NextRpc ==
    \/ \E c \in Conns : ClientCall(c)
    \/ \E c \in Conns : RawPeer(c)
    \/ \E c \in Conns : ServerHandle(c)
    \/ \E c \in Conns : PeerCloses(c)
    \/ \E c \in Conns : ClientReceive(c)
    \/ \E c \in Conns : ClientTimeout(c)

SpecRpc == InitRpc /\ [][NextRpc]_vars

\* The connections the server has handled, and those rpc_call has finished.
Handled(c) == conns[c].seq > 0

\* The first line of a connection is not a JSON request object.
Malformed(c) == conns[c].in # << >> /\ conns[c].in[1].kind # "object"

C12_HandlerFailureAnswered ==
    \A c \in Conns :
        conns[c].exc # << >> /\ conns[c].exc[1] = "raised" =>
            /\ conns[c].out = <<ErrorLine(conns[c].in[1].id, conns[c].exc[2])>>
            /\ sup
            /\ \A d \in Conns :
                 conns[d].srv = "open" /\ conns[d].in # << >> => ENABLED ServerHandle(d)

C12_Witness ==
    \E c, d \in Conns :
        /\ conns[c].exc = <<"raised", "boom">>
        /\ conns[c].out = <<ErrorLine("1", "boom")>>
        /\ conns[d].seq > conns[c].seq
        /\ conns[d].out = <<ResultLine("7", <<"result", "message">>)>>

\* C13: rpc_call raises whenever the response it parsed carries an error
\* field, the empty string included, and returns the result value only when
\* the response carries none.
C13_ErrorFieldRaises ==
    \A c \in Conns :
        conns[c].got = "line" =>
            /\ conns[c].out[1].error # << >> => conns[c].cli = "raised"
            /\ conns[c].cli = "returned" =>
                  conns[c].out[1].error = << >> /\ conns[c].ret = conns[c].out[1].result

\* C14: when the connection is closed before the server sent a byte,
\* rpc_call raises 'no response from server' and returns no value.
C14_NoResponseRaises ==
    \A c \in Conns :
        conns[c].got = "eof" =>
            /\ conns[c].cli = "raised"
            /\ conns[c].ret = <<"RuntimeError", "no response from server">>

C14_Witness ==
    \E c \in Conns :
        conns[c].peer = "rpc_call" /\ conns[c].out = << >> /\ conns[c].got = "eof"

\* C15: on every connection the server reads at most one request line,
\* writes at most one response line and then closes; rpc_call uses a
\* connection of its own, writes exactly one request line and takes its
\* outcome from the first response line alone.
C15_OneExchange ==
    \A c \in Conns :
        /\ conns[c].reads <= 1 /\ Len(conns[c].out) <= 1
        /\ Len(conns[c].out) <= conns[c].reads
        /\ Handled(c) => conns[c].srv = "closed"
        /\ conns[c].peer = "rpc_call" =>
              /\ conns[c].in = <<RpcRequest("message")>>
              /\ conns[c].got = "line" =>
                    [cli |-> conns[c].cli, ret |-> conns[c].ret]
                        = RpcCallResult(<<conns[c].out[1]>>)

C15_Witness ==
    \E c, d \in Conns :
        /\ conns[c].peer = "raw" /\ Len(conns[c].in) = MaxLines
        /\ Handled(c) /\ conns[c].reads = 1 /\ Len(conns[c].out) = 1
        /\ conns[d].peer = "rpc_call" /\ conns[d].cli = "returned"

\* ------------------------------------------------------------------------
\* SpecProto: core/grpc_utils.py, decoding a Message whose blobs hold any text
\* ------------------------------------------------------------------------
\*
\* A blob is the empty string, text json.loads rejects, or text that parses
\* to a JSON value; a JSON value is modelled by its type and truthiness,
\* and an object by whether its values are objects themselves.

JsonValues ==
    {"null", "false", "true", "zero", "number", "emptystring", "string", "emptylist",
     "list", "emptyobject", "object", "object_of_scalars"}

BlobTexts == {"", "unparseable"} \cup JsonValues

TruthyJson(v) == v \in {"true", "number", "string", "list", "object", "object_of_scalars"}

IsObject(v) == v \in {"emptyobject", "object", "object_of_scalars"}

\* _safe_loads on any text: None for "", for text that does not parse and
\* for the JSON null.
safe_loads_text(t) == IF t \in {"", "unparseable", "null"} THEN NoneV ELSE t

\* proto_to_pipeline_message up to the call of from_dict: the keys of data.
ProtoDataText(proto) ==
    [f \in {"analysis", "image_concept", "audio_script", "translations",
             "formatted_output", "metadata", "timestamps"} |->
        IF safe_loads_text(proto[f \o "_json"]) # NoneV
        THEN <<safe_loads_text(proto[f \o "_json"])>> ELSE << >>]

\* from_dict, "ts_data = data.get('timestamps') or {}".
TsData(data) ==
    IF data.timestamps # << >> /\ TruthyJson(data.timestamps[1])
    THEN data.timestamps[1] ELSE "emptyobject"

\* from_dict on such data: ts_data.items() is outside the try, the .get
\* calls on each entry are inside it.
FromDictText(data) ==
    IF ~IsObject(TsData(data))
    THEN [state |-> "raised", exc |-> "AttributeError"]
    ELSE [state |-> "returned",
          analysis |-> Get(data.analysis),
          image_concept |-> Get(data.image_concept),
          audio_script |-> Get(data.audio_script),
          translations |-> Get(data.translations),
          formatted_output |-> Get(data.formatted_output),
          metadata |-> IF data.metadata # << >> /\ TruthyJson(data.metadata[1])
                       THEN data.metadata[1] ELSE "emptyobject",
          timestamps |-> IF TsData(data) = "object" THEN "object" ELSE "emptyobject"]

proto_to_pipeline_message_text(proto) == FromDictText(ProtoDataText(proto))

\* The output slots other than analysis_json are decoded by the same
\* statements; they are drawn from an empty and a well-formed blob.
ProtoWires ==
    [analysis_json : BlobTexts, image_concept_json : {"", "object"},
     audio_script_json : {"", "object"}, translations_json : {"", "object"},
     formatted_output_json : {"", "object"}, metadata_json : BlobTexts,
     timestamps_json : BlobTexts]

InitProto ==
    /\ pwire \in ProtoWires
    /\ pres = [state |-> "none"]
    /\ RpcIdle /\ TrackerIdle /\ DictIdle /\ ViewIdle /\ CodecIdle /\ MergeIdle /\ RunnerIdle /\ HubIdle
    /\ mode = "grpc" /\ clock = 1 /\ heap = [o \in ObjIds |-> Unallocated]

\* _Servicer.Process / GrpcClient.process: decode what arrived.
ProtoDecode ==
    /\ pres.state = "none"
    /\ pres' = proto_to_pipeline_message_text(pwire)
    /\ UNCHANGED <<pwire, rpcVars, trackerVars, dictVars, viewVars, codecVars, mergeVars, mode, clock, heap, runnerVars,
                   hubVars>>

NextProto == ProtoDecode

SpecProto == InitProto /\ [][NextProto]_vars

SlotField(f) == SubSeq(f, 1, Len(f) - 5)

\* C16: decoding never raises, whatever the blobs hold (empty, unparseable,
\* or any JSON value, a non-object in timestamps_json or metadata_json
\* included), and an empty or unparseable blob leaves its field not set.
C16_DecodeNeverRaises ==
    pres.state # "none" =>
        /\ pres.state = "returned"
        /\ \A f \in JsonSlots :
             pwire[f] \in {"", "unparseable"} =>
                pres[SlotField(f)] = IF f \in {"metadata_json", "timestamps_json"}
                                     THEN "emptyobject" ELSE NoneV

\* ------------------------------------------------------------------------
\* SpecTracker: core/timestamp_tracker.py against a clock that moves
\* ------------------------------------------------------------------------
\*
\* The three marks may be called on a stage in any order and any number of
\* times; tpos follows how far the order received, started, completed got
\* with the latest calls.  The clock never goes back and may advance
\* between any two reads, the two reads of mark_started included.

MaxTime == 3

InitTracker ==
    /\ tmsg = PipelineMessage("prompt")
    /\ tclock = 1
    /\ tpos = [n \in TrackedStages |-> "none"]
    /\ tlast = <<"none", "none">>
    /\ RpcIdle /\ ProtoIdle /\ DictIdle /\ ViewIdle /\ CodecIdle /\ MergeIdle /\ RunnerIdle /\ HubIdle
    /\ mode = "local" /\ clock = 1 /\ heap = [o \in ObjIds |-> Unallocated]

trackerFrame ==
    <<rpcVars, protoVars, dictVars, viewVars, codecVars, mergeVars, mode, clock, heap, runnerVars, hubVars>>

TrackerTick ==
    /\ tclock < MaxTime
    /\ tclock' = tclock + 1
    /\ tlast' = <<"tick", "none">>
    /\ UNCHANGED <<tmsg, tpos, trackerFrame>>

TrackerMarkReceived(n) ==
    /\ tmsg' = mark_received(tmsg, n, tclock)
    /\ tpos' = [tpos EXCEPT ![n] = "received"]
    /\ tlast' = <<"mark_received", n>>
    /\ UNCHANGED <<tclock, trackerFrame>>

TrackerMarkStarted(n) ==
    /\ \E t2 \in tclock..MaxTime :
         /\ tmsg' = mark_started_at(tmsg, n, tclock, t2)
         /\ tclock' = t2
    /\ tpos' = [tpos EXCEPT ![n] = IF @ = "received" THEN "started" ELSE "unordered"]
    /\ tlast' = <<"mark_started", n>>
    /\ UNCHANGED trackerFrame

TrackerMarkCompleted(n) ==
    /\ tmsg' = mark_completed(tmsg, n, tclock)
    /\ tpos' = [tpos EXCEPT ![n] = IF @ = "started" THEN "completed" ELSE "unordered"]
    /\ tlast' = <<"mark_completed", n>>
    /\ UNCHANGED <<tclock, trackerFrame>>

NextTracker ==
    \/ TrackerTick
    \/ \E n \in TrackedStages : TrackerMarkReceived(n)
    \/ \E n \in TrackedStages : TrackerMarkStarted(n)
    \/ \E n \in TrackedStages : TrackerMarkCompleted(n)

SpecTracker == InitTracker /\ [][NextTracker]_vars

\* C17: after mark_received, mark_started and mark_completed were called on
\* a stage in that order against the non-decreasing clock, the record has
\* received <= started <= completed and its duration is not negative.
C17_Monotone ==
    \A n \in TrackedStages :
        tpos[n] = "completed" =>
            LET r == tmsg.timestamps[n]
                d == TsToDict(r)
            IN /\ r.received_time # NoneT /\ r.start_time # NoneT /\ r.end_time # NoneT
               /\ r.received_time <= r.start_time /\ r.start_time <= r.end_time
               /\ d.duration_ms # << >> /\ d.duration_ms[1] >= 0
               /\ d.duration_ms[1] = (r.end_time - r.start_time) * 1000

C17_Witness ==
    \E n \in TrackedStages :
        /\ tpos[n] = "completed"
        /\ tmsg.timestamps[n].received_time < tmsg.timestamps[n].start_time
        /\ tmsg.timestamps[n].start_time < tmsg.timestamps[n].end_time

\* ------------------------------------------------------------------------
\* Properties of the message along the run
\* ------------------------------------------------------------------------

Allocated(o) == heap[o] # Unallocated

\* C18: user_input is never changed: the pipeline's message, and every
\* copy of it that a transport decoded (the remote hub's message, the
\* sub-stage responses), carries the original prompt in every state.
C18_UserInputImmutable ==
    /\ heap["main"].user_input = "prompt"
    /\ \A o \in ObjIds : Allocated(o) => heap[o].user_input = "prompt"

C18_Witness ==
    /\ mode # "local" /\ ppc = "done" /\ chain = StandardChain
    /\ {MainProgram, StageA, StageB, StageC, StageD} \subseteq DOMAIN heap["main"].timestamps
    /\ "summary" \in DOMAIN heap["main"].metadata
    /\ heap["main"].user_input = "prompt"

\* C19: the key set of the pipeline message's metadata only grows: no
\* stage call, hub merge or top-level merge replaces the map or removes a
\* key.
C19_MetadataOnlyGrows ==
    [][DOMAIN heap["main"].metadata \subseteq DOMAIN heap'["main"].metadata]_vars

C19_Witness ==
    /\ ppc = "done" /\ mode # "local" /\ chain = StandardChain
    /\ {"theme", "characters", "summary", "statistics"} \subseteq DOMAIN heap["main"].metadata

NamedError == "Story text required for analysis"

\* C20: stage B called on a message without story_text fails with the
\* named error and leaves every output field as it was, the runner stops,
\* and nothing runs after it.
C20_StageBPrecondition ==
    [][/\ (ppc = "invoke" /\ chain[idx] = StageB /\ heap["main"].story_text = NoneV) =>
             /\ ppc' = "raised"
             /\ perr'[2] = NamedError \/ (mode # "local" /\ perr'[2] = "transport")
             /\ heap' = heap
       /\ ppc = "raised" => ppc' = "raised" /\ heap' = heap /\ invoked' = invoked]_vars

C20_Witness ==
    /\ ppc = "raised" /\ perr = <<"ValueError", NamedError>>
    /\ invoked = <<StageB>> /\ chain = <<StageB, StageC, StageD>>
    /\ \A f \in OptionalFields : heap["main"][f] = NoneV
    /\ DOMAIN heap["main"].timestamps = {MainProgram, StageB}

Summary == heap["main"].metadata["summary"]

\* C21: after stage D the summary counts the output fields that are set on
\* the message and reports the pipeline complete exactly when all six are;
\* the full local chain without a failing stage gives 6 and true, a run
\* with a degraded sub-stage gives less than 6 and false.
C21_AggregateSummary ==
    "summary" \in DOMAIN heap["main"].metadata =>
        /\ Summary = SummaryTokens[ComponentsReceived(heap["main"]) + 1]
        /\ Summary = "summary:6:true" <=> \A f \in OptionalFields : heap["main"][f] # NoneV
        /\ mode = "local" /\ chain = StandardChain /\ failed = {}
              => Summary = "summary:6:true"
        /\ failed \cup raced # {} =>
              ComponentsReceived(heap["main"]) < 6 /\ Summary # "summary:6:true"

C21_Witness ==
    /\ ppc = "done" /\ chain = StandardChain /\ failed = {SubC2}
    /\ "summary" \in DOMAIN heap["main"].metadata
    /\ heap["main"].audio_script = NoneV /\ Summary = "summary:5:false"

\* The stage's record before and after a call of the tracker; a stage
\* without a record reads as a fresh one.
RecordOf(m, n) == IF n \in DOMAIN m.timestamps THEN m.timestamps[n] ELSE TimestampRecord(n)

\* C22: mark_received creates the record if absent and sets received_time to
\* the current time only if it is not set; called on a stage whose
\* received_time is set it leaves received_time as it was.
C22_ReceivedSetOnce ==
    [][\A n \in TrackedStages :
          tlast' = <<"mark_received", n>> =>
              /\ n \in DOMAIN tmsg'.timestamps
              /\ RecordOf(tmsg', n).received_time =
                    IF RecordOf(tmsg, n).received_time # NoneT
                    THEN RecordOf(tmsg, n).received_time ELSE tclock]_vars

\* C23: mark_started creates the record if absent, always sets start_time
\* to the current time, backfills received_time only when it is unset, and
\* leaves a record with received_time set and received_time <= start_time.
C23_StartedBackfills ==
    [][\A n \in TrackedStages :
          tlast' = <<"mark_started", n>> =>
              /\ n \in DOMAIN tmsg'.timestamps
              /\ RecordOf(tmsg', n).start_time = tclock'
              /\ RecordOf(tmsg', n).received_time =
                    IF RecordOf(tmsg, n).received_time # NoneT
                    THEN RecordOf(tmsg, n).received_time ELSE tclock
              /\ RecordOf(tmsg', n).received_time # NoneT
              /\ RecordOf(tmsg', n).received_time <= RecordOf(tmsg', n).start_time
              /\ RecordOf(tmsg', n).end_time = RecordOf(tmsg, n).end_time]_vars

C23_Witness ==
    \E n \in TrackedStages :
        /\ tlast = <<"mark_started", n>> /\ tpos[n] = "unordered"
        /\ tmsg.timestamps[n].end_time = NoneT
        /\ tmsg.timestamps[n].received_time # NoneT
        /\ tmsg.timestamps[n].received_time < tmsg.timestamps[n].start_time

\* C24: mark_completed on a stage that was never received or started
\* creates the record, sets end_time, leaves received_time and start_time
\* unset, and the dictionary form of the record has no duration_ms.
C24_CompletedAlone ==
    [][\A n \in TrackedStages :
          tlast' = <<"mark_completed", n>> /\ n \notin DOMAIN tmsg.timestamps =>
              /\ n \in DOMAIN tmsg'.timestamps
              /\ tmsg'.timestamps[n] = [TimestampRecord(n) EXCEPT !.end_time = tclock]
              /\ TsToDict(tmsg'.timestamps[n]).duration_ms = << >>
              /\ TsToDict(tmsg'.timestamps[n]).completed_timestamp = <<tclock>>]_vars

C24_Witness ==
    \E n \in TrackedStages :
        /\ tlast = <<"mark_completed", n>> /\ n \in DOMAIN tmsg.timestamps
        /\ tmsg.timestamps[n].received_time = NoneT
        /\ tmsg.timestamps[n].start_time = NoneT
        /\ tmsg.timestamps[n].end_time = tclock /\ tclock > 1

\* The pipeline message's record of the i-th stage of the chain.
Marked(i) == chain[i] \in DOMAIN heap["main"].timestamps

Rec(i) == heap["main"].timestamps[chain[i]]

AllSet(r) == r.received_time # NoneT /\ r.start_time # NoneT /\ r.end_time # NoneT

\* C25: execute_pipeline runs the chain in program order: a stage is marked
\* received, marked started, invoked and marked completed, and the next
\* stage is neither marked nor invoked before that; after a run without
\* errors every stage of the chain has received, started and completed set.
C25_SequentialOrder ==
    /\ invoked = SubSeq(chain, 1, Len(invoked))
    /\ \A i \in 1..Len(chain) :
         /\ i < idx => Marked(i) /\ AllSet(Rec(i)) /\ Len(invoked) >= i
         /\ i < idx /\ i + 1 < idx => Rec(i).end_time <= Rec(i + 1).received_time
         /\ i > idx => ~Marked(i) /\ Len(invoked) < i
         /\ i = idx =>
               /\ ppc \in {"check", "receive"} => ~Marked(i) /\ Len(invoked) < i
               /\ ppc = "start" =>
                     /\ Marked(i) /\ Rec(i).received_time # NoneT
                     /\ Rec(i).start_time = NoneT /\ Len(invoked) < i
               /\ ppc = "invoke" =>
                     /\ Marked(i) /\ Rec(i).received_time # NoneT
                     /\ Rec(i).start_time # NoneT /\ Rec(i).end_time = NoneT
                     /\ Len(invoked) < i
               /\ ppc \in {"hub", "complete"} =>
                     /\ Marked(i) /\ Rec(i).start_time # NoneT /\ Len(invoked) = i
    /\ ppc = "done" =>
         idx = Len(chain) + 1 /\ \A i \in 1..Len(chain) : Marked(i) /\ AllSet(Rec(i))

C25_Witness ==
    /\ ppc = "done" /\ chain = StandardChain /\ invoked = StandardChain
    /\ \A i \in 1..4 : Marked(i) /\ AllSet(Rec(i))
    /\ \A i \in 1..3 : Rec(i).end_time < Rec(i + 1).received_time

\* The stages of the chain before position idx.
Before(name) == \E i \in 1..Len(chain) : i < idx /\ chain[i] = name

\* C26: when stage k of the chain fails (it raises, or it is not
\* registered), the step that raises leaves the caller's message as it
\* was: everything stages 1..k-1 wrote is still on it; a raising stage k has
\* received and started set and no completed mark; no later stage has a
\* record.
C26_NoRollback ==
    [][ppc' = "raised" =>
          /\ heap'["main"] = heap["main"]
          /\ \A i \in 1..Len(chain) :
               /\ i < idx => Marked(i) /\ AllSet(Rec(i))
               /\ i > idx => ~Marked(i)
               /\ i = idx =>
                     IF perr'[1] = "not registered"
                     THEN ~Marked(i)
                     ELSE /\ Marked(i) /\ Rec(i).received_time # NoneT
                          /\ Rec(i).start_time # NoneT /\ Rec(i).end_time = NoneT
          /\ Before(StageA) =>
                /\ heap'["main"].story_text = "story"
                /\ {"characters", "theme", "generation_metadata"}
                       \subseteq DOMAIN heap'["main"].metadata
          /\ Before(StageB) => heap'["main"].analysis = "analysis"]_vars

C26_Witness ==
    /\ ppc = "raised" /\ perr = <<"RuntimeError", "transport">>
    /\ chain = StandardChain /\ idx = 4
    /\ heap["main"].story_text = "story" /\ heap["main"].analysis = "analysis"
    /\ "theme" \in DOMAIN heap["main"].metadata
    /\ \A i \in 1..3 : Marked(i) /\ AllSet(Rec(i))
    /\ Marked(4) /\ Rec(4).start_time # NoneT /\ Rec(4).end_time = NoneT

\* C27: during the hub phase every mutation of the shared message's
\* timestamps map is serialized: no thread inserts into the map while a
\* worker (encoding the message) or the collector (merging timestamps) is
\* in the middle of iterating it.
C27_TimestampsSerialized ==
    /\ \A k \in SubStages : wpc[k] = "encoding" => DOMAIN Shared.timestamps = wkeys[k]
    /\ cur # "none" => DOMAIN Shared.timestamps = ckeys

\* C28: after process_service_c returns from a run in which no sub-stage
\* failed, the record of each of the four sub-stages in the returned message
\* has received, started and completed set, with local and with remote
\* sub-stages.
C28_SubStageRecordsComplete ==
    HubReturned /\ failed = {} /\ raced = {} =>
        \A k \in SubStages :
            k \in DOMAIN Shared.timestamps /\ AllSet(Shared.timestamps[k])

\* C29: when a sub-stage's remote call fails, the hub takes the input
\* message as that sub-stage's output: at the hub's return the sub-stage's
\* own output field is as it was before the hub, its completion is marked,
\* every sibling's worker ran to its end and was collected, and the hub's
\* own completion is marked.
C29_DegradedSubStage ==
    mode # "local" /\ HubReturned =>
        \A k \in failed :
            /\ Shared[OwnField(k)] = hubin[OwnField(k)]
            /\ k \in DOMAIN Shared.timestamps
            /\ Shared.timestamps[k].end_time # NoneT
            /\ \A j \in SubStages \ {k} : wpc[j] = "done" /\ j \in merged
            /\ \A j \in SubStages \ (failed \cup raced) : Shared[OwnField(j)] # NoneV
            /\ HubCompletionMarked

C29_Witness ==
    /\ mode = "rpc" /\ HubReturned /\ failed = {SubC2} /\ raced = {}
    /\ Shared.audio_script = NoneV /\ Shared.timestamps[SubC2].end_time # NoneT
    /\ Shared.image_concept # NoneV /\ Shared.translations # NoneV
    /\ Shared.formatted_output # NoneV

\* ------------------------------------------------------------------------
\* SpecHubTimed: the in-process run of the standard chain with a clock that
\* moves while the hub's threads run
\* ------------------------------------------------------------------------

\* How often time.time() is seen to move during one hub phase.
MaxHubTicks == 1

InitHubTimed ==
    /\ mode = "local"
    /\ clock = 1
    /\ heap = [o \in ObjIds |->
                 IF o = "main"
                 THEN mark_started(PipelineMessage("prompt"), MainProgram, 1)
                 ELSE Unallocated]
    /\ chain = StandardChain /\ services = TopStages
    /\ idx = 1 /\ ppc = "check" /\ perr = << >> /\ invoked = << >>
    /\ CodecIdle /\ MergeIdle /\ HubIdle /\ UnitIdle

\* time.time() moves between two steps of the hub's threads.
HubTick ==
    /\ ppc = "hub" /\ hpc = "collect"
    /\ clock < idx + MaxHubTicks
    /\ clock' = clock + 1
    /\ UNCHANGED <<codecVars, mergeVars, unitVars, mode, heap, runnerVars, hubVars>>

NextHubTimed ==
    \/ RunnerReturn
    \/ RunnerCheck
    \/ RunnerMarkReceived
    \/ RunnerMarkStarted
    \/ RunnerInvokeLocal
    \/ RunnerMarkCompleted
    \/ HubEnterLocal
    \/ \E k \in SubStages : WorkerMarkStarted(k)
    \/ \E k \in SubStages : WorkerCallLocal(k)
    \/ \E k \in SubStages : WorkerMarkCompleted(k)
    \/ \E k \in SubStages : CollectorTakeRaised(k)
    \/ \E k \in SubStages : CollectorTakeShared(k)
    \/ CollectorMerge
    \/ HubReturnLocal
    \/ HubTick

SpecHubTimed == InitHubTimed /\ [][NextHubTimed]_vars

HubRec == Shared.timestamps[StageC]

InitHubLive ==
    /\ mode = "local"
    /\ clock = 1
    /\ heap = [o \in ObjIds |->
                 IF o = "main"
                 THEN mark_started(PipelineMessage("prompt"), MainProgram, 1)
                 ELSE Unallocated]
    /\ chain = StandardChain /\ services = TopStages
    /\ idx = 1 /\ ppc = "check" /\ perr = << >> /\ invoked = << >>
    /\ CodecIdle /\ MergeIdle /\ HubIdle /\ UnitIdle

\* One pool thread running execute_with_tracking for a local callable.
LocalWorker(k) ==
    \/ WorkerMarkStarted(k)
    \/ WorkerCallLocal(k)
    \/ WorkerMarkCompleted(k)

\* The thread of process_service_c inside "for future in as_completed(futures)".
LocalCollector ==
    \/ \E k \in SubStages : CollectorTakeRaised(k)
    \/ \E k \in SubStages : CollectorTakeShared(k)
    \/ CollectorMerge

NextHubLive ==
    \/ RunnerReturn
    \/ RunnerCheck
    \/ RunnerMarkReceived
    \/ RunnerMarkStarted
    \/ RunnerInvokeLocal
    \/ RunnerMarkCompleted
    \/ HubEnterLocal
    \/ \E k \in SubStages : LocalWorker(k)
    \/ LocalCollector
    \/ HubReturnLocal

\* The pool has four threads for four tasks and the interpreter schedules
\* every runnable thread; a sub-stage call returns or raises.  So a worker
\* that can step does step, and so does the thread of process_service_c.
HubFairness ==
    /\ \A k \in SubStages : WF_vars(LocalWorker(k))
    /\ WF_vars(LocalCollector)
    /\ WF_vars(HubReturnLocal)

SpecHubLive == InitHubLive /\ [][NextHubLive]_vars /\ HubFairness

MergesResultOf(k) ==
    /\ hubRef # "none" /\ hpc = "collect" /\ hubRef' = hubRef
    /\ wpc[k] = "done"
    /\ \/ k \notin merged /\ k \in merged'
       \/ cur # k /\ cur' = k

\* C32 (hub merge frame): merging the result of sub-stage k into the shared
\* message leaves the output fields owned by the other sub-stages, and
\* story_text, analysis and user_input, with the values they had; of the
\* four output fields only the one k owns may change.
C32_MergeFrame ==
    [][\A k \in SubStages :
          MergesResultOf(k) =>
              /\ \A f \in OutputFields \ {OwnField(k)} : heap'[hubRef][f] = heap[hubRef][f]
              /\ heap'[hubRef].story_text = heap[hubRef].story_text
              /\ heap'[hubRef].analysis = heap[hubRef].analysis
              /\ heap'[hubRef].user_input = heap[hubRef].user_input]_vars

\* Two decoded responses are merged, each owner's field is in the shared
\* message, and a third response waiting to be merged carries, from its
\* snapshot, a field that another sub-stage owns.
C32_Witness ==
    /\ hubRef # "none" /\ hpc = "collect"
    /\ \E j, k \in merged :
          /\ j # k /\ wres[j] # hubRef /\ wres[k] # hubRef
          /\ wpc[j] = "done" /\ wpc[k] = "done"
          /\ TruthyV(Shared[OwnField(j)]) /\ TruthyV(Shared[OwnField(k)])
          /\ \E i \in SubStages \ merged :
                /\ wpc[i] = "done" /\ wres[i] # hubRef
                /\ TruthyV(heap[wres[i]][OwnField(j)])
                /\ TruthyV(heap[wres[i]][OwnField(i)])

\* ------------------------------------------------------------------------
\* SpecFromDict: core/message.py, from_dict on any dictionary a peer sends
\* ------------------------------------------------------------------------
\*
\* The dictionary is what json.loads made of a request or response line.  A
\* value is modelled by its JSON type; an object under data["timestamps"]
\* has the keys TimestampRecord.to_dict writes, each present or absent, with
\* the formatted strings free to disagree with the epoch numbers.

EntryNames == {StageA, StageB}

EntryObjects ==
    [service_name : {<<"elsewhere">>},
     received : {<< >>}, received_timestamp : {<< >>, <<1>>},
     started : {<< >>, <<IsoFormat(2)>>}, started_timestamp : {<< >>, <<1>>},
     completed : {<< >>, <<IsoFormat(3)>>}, completed_timestamp : {<< >>, <<2>>},
     duration_ms : {<< >>}]

NoKeys ==
    [service_name |-> << >>, received |-> << >>, received_timestamp |-> << >>,
     started |-> << >>, started_timestamp |-> << >>, completed |-> << >>,
     completed_timestamp |-> << >>, duration_ms |-> << >>]

\* One value under data["timestamps"]: an object, or null, a string, a list.
Entries ==
    [kind : {"object"}, dict : EntryObjects]
        \cup [kind : {"null", "string", "list"}, dict : {NoKeys}]

EntryMaps ==
    UNION {[S -> Entries] : S \in SUBSET EntryNames}

\* data.get("timestamps"): no such key, null, an empty or a non-empty list,
\* or an object of entries.
TimestampsValues ==
    [kind : {"absent", "null", "emptylist", "list"}, map : {EmptyMap}]
        \cup [kind : {"object"}, map : EntryMaps]

\* data.get("story"): no such key, null, a string, an empty object, or an
\* object with or without the key "text".
StoryValues ==
    [kind : {"absent", "null", "string", "emptyobject"}, text : {<< >>}]
        \cup [kind : {"object"}, text : {<< >>, <<"">>, <<"legacy">>}]

RawDicts ==
    [user_input : {<<"prompt">>},
     story_text : {<< >>, <<NoneV>>, <<"">>, <<"story">>},
     story : StoryValues,
     analysis : {<<"analysis">>},
     image_concept : {<< >>}, audio_script : {<< >>}, translations : {<< >>},
     formatted_output : {<< >>}, metadata : {<< >>},
     timestamps : TimestampsValues]

\* The empty dict, as the value of a field.
EmptyDictV == "<{}>"

\* "data.get('story_text') or data.get('story') and data.get('story').get('text')":
\* a truthy story_text wins; otherwise a falsy story is the result itself,
\* and a truthy one is asked for its "text".
StoryGetRaises(data) ==
    ~TruthyV(Get(data.story_text)) /\ data.story.kind = "string"

RawStoryText(data) ==
    IF TruthyV(Get(data.story_text)) THEN Get(data.story_text)
    ELSE CASE data.story.kind = "emptyobject" -> EmptyDictV
           [] data.story.kind = "object" -> Get(data.story.text)
           [] OTHER -> NoneV

\* "ts_data = data.get('timestamps') or {}"; ts_data.items() is outside the
\* try and a non-empty list has no items().
ItemsRaises(data) == data.timestamps.kind = "list"

RawTsData(data) ==
    IF data.timestamps.kind = "object" THEN data.timestamps.map ELSE EmptyMap

\* The loop over ts_data.items(): tdict.get raises AttributeError on a value
\* that is not an object, inside the try, and "except Exception: continue"
\* goes on to the next entry.
RawTimestamps(data) ==
    [n \in {x \in DOMAIN RawTsData(data) : RawTsData(data)[x].kind = "object"} |->
        FromDictRecord(n, RawTsData(data)[n].dict)]

FromDictRaw(data) ==
    IF StoryGetRaises(data) \/ ItemsRaises(data)
    THEN [state |-> "raised", exc |-> "AttributeError"]
    ELSE [state |-> "returned",
          message |->
             [user_input |-> IF data.user_input = << >> THEN "" ELSE data.user_input[1],
              story_text |-> RawStoryText(data),
              analysis |-> Get(data.analysis),
              image_concept |-> Get(data.image_concept),
              audio_script |-> Get(data.audio_script),
              translations |-> Get(data.translations),
              formatted_output |-> Get(data.formatted_output),
              metadata |-> IF data.metadata = << >> THEN EmptyMap ELSE data.metadata[1],
              timestamps |-> RawTimestamps(data)]]

InitFromDict ==
    /\ fdata \in RawDicts
    /\ fres = [state |-> "none"]
    /\ ViewIdle /\ RpcIdle /\ ProtoIdle /\ TrackerIdle
    /\ CodecIdle /\ MergeIdle /\ RunnerIdle /\ HubIdle
    /\ mode = "rpc" /\ clock = 1 /\ heap = [o \in ObjIds |-> Unallocated]

\* A handler or a caller decodes what arrived: PipelineMessage.from_dict(data).
FromDictCall ==
    /\ fres.state = "none"
    /\ fres' = FromDictRaw(fdata)
    /\ UNCHANGED <<fdata, viewVars, rpcVars, protoVars, trackerVars, codecVars, mergeVars,
                   mode, clock, heap, runnerVars, hubVars>>

NextFromDict == FromDictCall

SpecFromDict == InitFromDict /\ [][NextFromDict]_vars

\* The entries of data["timestamps"], when it is an object.
EntryAt(n) == fdata.timestamps.map[n]

\* C34 (from_dict timestamp reconstruction): when data["timestamps"] is an
\* object, an entry that is not an object is skipped, every other entry
\* yields a record under its own key whose three instants are the values of
\* received_timestamp, started_timestamp and completed_timestamp and of
\* nothing else, and from_dict returns; and when there is no story_text, a
\* story of the shape {"text": t} yields story_text = t.
C34_FromDictTimestamps ==
    fres.state # "none" =>
        /\ fdata.timestamps.kind = "object" /\ fdata.story.kind # "string" =>
              /\ fres.state = "returned"
              /\ DOMAIN fres.message.timestamps =
                     {n \in DOMAIN fdata.timestamps.map : EntryAt(n).kind = "object"}
              /\ \A n \in DOMAIN fres.message.timestamps :
                    /\ fres.message.timestamps[n].service_name = n
                    /\ fres.message.timestamps[n].received_time =
                           GetT(EntryAt(n).dict.received_timestamp)
                    /\ fres.message.timestamps[n].start_time =
                           GetT(EntryAt(n).dict.started_timestamp)
                    /\ fres.message.timestamps[n].end_time =
                           GetT(EntryAt(n).dict.completed_timestamp)
        /\ /\ fres.state = "returned"
           /\ fdata.story_text = << >>
           /\ fdata.story.kind = "object" /\ fdata.story.text # << >>
           => fres.message.story_text = fdata.story.text[1]

\* from_dict returned; one entry was not an object, the other carried
\* formatted strings that disagree with its epoch numbers and no completed
\* number; the story came in the legacy shape.
C34_Witness ==
    /\ fres.state = "returned"
    /\ fdata.story_text = << >> /\ fdata.story.kind = "object"
    /\ fdata.story.text = <<"legacy">>
    /\ fdata.timestamps.kind = "object"
    /\ DOMAIN fdata.timestamps.map = EntryNames
    /\ EntryAt(StageA).kind = "string"
    /\ EntryAt(StageB).kind = "object"
    /\ EntryAt(StageB).dict.completed # << >>
    /\ EntryAt(StageB).dict.completed_timestamp = << >>
    /\ EntryAt(StageB).dict.started # << >>
    /\ EntryAt(StageB).dict.started_timestamp # << >>
    /\ DOMAIN fres.message.timestamps = {StageB}

\* How far the task of a sub-stage has got: not submitted, submitted, inside
\* execute_with_tracking before the call, in the call, after the call,
\* future finished.
TaskRank(p) ==
    CASE p = "idle" -> 0
      [] p = "ready" -> 1
      [] p = "started" -> 2
      [] p = "encoding" -> 3
      [] p = "returned" -> 4
      [] OTHER -> 5

\* C33 (hub dispatch): while the collector is at work all four tasks are
\* submitted, and a submitted task can start whatever the other three are
\* doing; a task only moves forward (it is never run again), and when the
\* hub has returned every sub-stage has been through its call once.
C33_ParallelDispatch ==
    /\ [](hpc = "collect" =>
            /\ \A k \in SubStages : wpc[k] # "idle"
            /\ \A k \in SubStages : wpc[k] = "ready" => ENABLED WorkerMarkStarted(k))
    /\ [](hpc = "returned" => \A k \in SubStages : wpc[k] \in {"done", "raised"})
    /\ [][\A k \in SubStages : TaskRank(wpc'[k]) >= TaskRank(wpc[k])]_vars

\* All four sub-stages are in flight at once and nothing is collected yet.
C33_Witness ==
    /\ hpc = "collect" /\ merged = {} /\ cur = "none"
    /\ \A k \in SubStages : wpc[k] \in {"started", "encoding"}

\* The first line of a connection is a request object that carries an id,
\* the server has handled the connection, and the injected handler returned.
Succeeded(c) ==
    /\ Handled(c) /\ conns[c].reads = 1
    /\ conns[c].in[1].kind = "object" /\ conns[c].in[1].id # NoneV
    /\ conns[c].exc = << >>

\* What the injected handler returned for the request of connection c.
Returned(c) == <<"result", conns[c].in[1].params>>

\* C35 (text RPC success path): for a request object with an id whose
\* handler returns r, the server writes the single line
\* {id: the request's id, result: r} without an error field, and the
\* rpc_call that receives it returns r.
C35_SuccessPath ==
    \A c \in Conns :
        Succeeded(c) =>
            /\ conns[c].out =
                   <<[id |-> conns[c].in[1].id, error |-> << >>, result |-> <<Returned(c)>>]>>
            /\ conns[c].peer = "rpc_call" /\ conns[c].got = "line" =>
                  /\ conns[c].cli = "returned"
                  /\ conns[c].ret = <<Returned(c)>>

C35_Witness ==
    \E c, d \in Conns :
        /\ conns[c].peer = "rpc_call" /\ Succeeded(c)
        /\ conns[c].cli = "returned" /\ conns[c].ret = <<<<"result", "message">>>>
        /\ conns[d].peer = "raw" /\ Succeeded(d) /\ conns[d].out[1].id = "7"

\* The handler of connection c has not finished (its request waits in a
\* thread that is blocked or slow), or it has failed.
Stalled(c) ==
    \/ conns[c].srv = "open" /\ conns[c].in # << >>
    \/ conns[c].exc # << >> /\ conns[c].exc[1] \in {"raised", "escaped"}

\* C36 (connection independence): whatever state another connection's
\* handler is in, a connection that waits with a request can be handled,
\* and a handled connection whose line was a request object or not JSON at
\* all has its one response line.
C36_ConnectionIndependence ==
    \A c, d \in Conns :
        c # d /\ Stalled(c) =>
            /\ conns[d].srv = "open" /\ conns[d].in # << >> => ENABLED ServerHandle(d)
            /\ Handled(d) /\ conns[d].reads = 1 /\ conns[d].in[1].kind # "value" =>
                  Len(conns[d].out) = 1

\* One connection's request still waits for its handler while a connection
\* handled meanwhile has been answered and its caller has returned.
C36_Witness ==
    \E c, d \in Conns :
        /\ c # d
        /\ conns[c].srv = "open" /\ conns[c].in # << >> /\ conns[c].peer = "rpc_call"
        /\ Handled(d) /\ conns[d].peer = "rpc_call" /\ conns[d].cli = "returned"

\* C37 (one record per stage name): in every message of a run (the
\* pipeline's, the hub's, each decoded response) every key of the
\* timestamps map holds a record whose service_name is that key; and a step
\* that marks a stage already in the map, decodes a message or merges one
\* into another leaves the keys it had in place, each still with a record
\* of its own name.
C37_OneRecordPerStage ==
    /\ [](\A o \in ObjIds : \A n \in DOMAIN heap[o].timestamps :
              heap[o].timestamps[n].service_name = n)
    /\ [][\A o \in {"main", "hub"} : \A n \in DOMAIN heap[o].timestamps :
              /\ n \in DOMAIN heap'[o].timestamps
              /\ heap'[o].timestamps[n].service_name = heap[o].timestamps[n].service_name]_vars

\* The remote hub has returned: its message went through the hub's merges,
\* the hub's record was marked completed twice, and the decoded response
\* was merged into the pipeline's message, which holds a record for the
\* hub and for each sub-stage.
C37_Witness ==
    /\ mode # "local" /\ hpc = "returned"
    /\ SubStages \cup {StageA, StageB, StageC} \subseteq DOMAIN heap["main"].timestamps
    /\ DOMAIN heap["top"].timestamps = DOMAIN heap["hub"].timestamps
    /\ heap["main"].timestamps[StageC].end_time # NoneT
    /\ \E k \in SubStages : wres[k] # "hub" /\ k \in merged

\* ------------------------------------------------------------------------
\* SpecView: core/timestamp_tracker.py, display_pipeline_execution on any
\* message
\* ------------------------------------------------------------------------
\*
\* The message is the pipeline's final one; with a remote hub its hub and
\* sub-stage records are whatever the hub's response carried.  A sub-stage
\* has no record, or a record with or without a start and with or without
\* a completion; the hub's record is there or not.

ViewStarts == {NoneT, 1, 2}

ViewEnds == {NoneT, 2, 3}

ViewSlots ==
    [present : {FALSE}, start : {NoneT}, end : {NoneT}]
        \cup [present : {TRUE}, start : ViewStarts, end : ViewEnds]

ViewRecord(n, slot) ==
    [service_name |-> n, received_time |-> slot.start,
     start_time |-> slot.start, end_time |-> slot.end]

ViewMessage(hub, slots) ==
    [PipelineMessage("prompt") EXCEPT !.timestamps =
        [n \in {k \in SubStages : slots[k].present} \cup (IF hub THEN {StageC} ELSE {}) |->
            IF n = StageC
            THEN [service_name |-> n, received_time |-> 1, start_time |-> 1, end_time |-> 3]
            ELSE ViewRecord(n, slots[n])]]

MaxOf(S) == CHOOSE x \in S : \A y \in S : y <= x

MinOf(S) == CHOOSE x \in S : \A y \in S : x <= y

\* "if ps_ts and ps_ts.start_time: parallel_timestamps.append(...)", in the
\* order of parallel_services.
ParallelTimestamps(m) ==
    LET Started(n) == n \in DOMAIN m.timestamps /\ TruthyT(m.timestamps[n].start_time)
    IN SelectSeq(SubOrder, Started)

\* "if all(ps_ts.end_time for ps_ts, _ in parallel_timestamps)", inside
\* "if parallel_timestamps:".
BatchCompleted(m) ==
    /\ ParallelTimestamps(m) # << >>
    /\ \A i \in DOMAIN ParallelTimestamps(m) :
          TruthyT(m.timestamps[ParallelTimestamps(m)[i]].end_time)

\* max_duration = (max_end - min_start) * 1000
BatchDuration(m) ==
    LET listed == {ParallelTimestamps(m)[i] : i \in DOMAIN ParallelTimestamps(m)}
    IN (MaxOf({m.timestamps[n].end_time : n \in listed})
          - MinOf({m.timestamps[n].start_time : n \in listed})) * 1000

\* "Total Pipeline Duration", over every record with a start or an end.
TotalDuration(m) ==
    LET ends == {m.timestamps[n].end_time : n \in DOMAIN m.timestamps} \ {NoneT}
        starts == {m.timestamps[n].start_time : n \in DOMAIN m.timestamps} \ {NoneT}
    IN IF starts # {} /\ ends # {}
       THEN <<(MaxOf(ends) - MinOf(starts)) * 1000>> ELSE << >>

\* What display_pipeline_execution prints about the hub: the sub-stages it
\* lists, the "Parallel Batch Completed" line with its duration if it
\* prints one, and the total.
display_pipeline_execution(m) ==
    [state |-> "printed",
     parallel |-> IF StageC \in DOMAIN m.timestamps THEN ParallelTimestamps(m) ELSE << >>,
     batch |-> IF StageC \in DOMAIN m.timestamps /\ BatchCompleted(m)
               THEN <<BatchDuration(m)>> ELSE << >>,
     total |-> TotalDuration(m)]

InitView ==
    /\ \E hub \in BOOLEAN : \E slots \in [SubStages -> ViewSlots] :
          vmsg = ViewMessage(hub, slots)
    /\ vout = [state |-> "none"]
    /\ DictIdle /\ RpcIdle /\ ProtoIdle /\ TrackerIdle
    /\ CodecIdle /\ MergeIdle /\ RunnerIdle /\ HubIdle
    /\ mode = "rpc" /\ clock = 1 /\ heap = [o \in ObjIds |-> Unallocated]

\* main: tracker.display_pipeline_execution(final_message).
ViewDisplay ==
    /\ vout.state = "none"
    /\ vout' = display_pipeline_execution(vmsg)
    /\ UNCHANGED <<vmsg, dictVars, rpcVars, protoVars, trackerVars, codecVars, mergeVars,
                   mode, clock, heap, runnerVars, hubVars>>

NextView == ViewDisplay

SpecView == InitView /\ [][NextView]_vars

\* Sub-stage k has a record with a start and a completion.
SubCompleted(k) ==
    /\ k \in DOMAIN vmsg.timestamps
    /\ vmsg.timestamps[k].start_time # NoneT
    /\ vmsg.timestamps[k].end_time # NoneT

\* C38 (batch duration): the timeline shows the parallel batch duration
\* only when every one of the four sub-stages has completed, and then it is
\* the latest sub-stage end minus the earliest sub-stage start; with a
\* sub-stage that has no record, no start or no completion it shows none.
C38_BatchOnlyWhenAllComplete ==
    vout.state = "printed" /\ vout.batch # << >> =>
        /\ \A k \in SubStages : SubCompleted(k)
        /\ vout.batch[1] =
              (MaxOf({vmsg.timestamps[k].end_time : k \in SubStages})
                 - MinOf({vmsg.timestamps[k].start_time : k \in SubStages})) * 1000

====
